---------------------------- MODULE Spec2Model ----------------------------
(***************************************************************************)
(* Model of the DesignWare HDMI QP transmitter bridge driver               *)
(* (drivers/gpu/drm/bridge/synopsys/dw-hdmi-qp.c) and of the AP6275P       *)
(* power sequencer (drivers/power/sequencing/pwrseq-ap6275p.c).            *)
(*                                                                         *)
(* Part I   : the I2C-over-DDC adapter (dw_hdmi_qp_i2c_xfer, _read,        *)
(*            _write), the interrupt dispatcher and the I2C master         *)
(*            hardware with a sink modelled as a byte-addressed register   *)
(*            file.  Specification: Spec.                                  *)
(* Part II  : the link / scrambling state machine (atomic_enable,          *)
(*            atomic_disable, bridge_detect, reset_link) and the delayed   *)
(*            scrambling recheck (scramb_work).  Specification: SpecLink.  *)
(* Part III : the infoframe packet path (clear_infoframe,                  *)
(*            write_infoframe, config_avi_infoframe,                       *)
(*            config_drm_infoframe) and tmds_char_rate_valid.              *)
(*            Specification: SpecPkt.                                      *)
(* Part IV  : the power sequencer's units, targets and callbacks, driven   *)
(*            by the sequencing core.  Specification: SpecPwr.             *)
(*                                                                         *)
(* Part V   : dw_hdmi_qp_bind and dw_hdmi_qp_i2c_adapter with the          *)
(*            interrupt handler live from its registration.                *)
(*            Specification: SpecBind.                                     *)
(*                                                                         *)
(* SpecFair is Spec under a fair scheduler of the calling threads; SpecAny *)
(* is the adapter driven with arbitrary message batches.                   *)
(*                                                                         *)
(* The parts have disjoint variables; each specification leaves the other  *)
(* parts' variables unchanged.                                             *)
(***************************************************************************)
EXTENDS Integers, Sequences, FiniteSets, TLC

(***************************************************************************)
(* Program constants.                                                      *)
(***************************************************************************)
DDC_CI_ADDR == 55
DDC_SEGMENT_ADDR == 48
\* DDC_ADDR comes from <drm/drm_edid.h>; the driver uses it at line 220.
DDC_ADDR == 80

\* Width of i2c->slave_reg (u8) and of the byte taken from RDDATA (& 0xff).
U8 == 256

\* Error codes returned by the master transfer (negative errno values; a
\* success returns the number of messages, a positive integer).
EOPNOTSUPP == -95
EAGAIN == -11
EIO == -5

\* Bits of MAINUNIT_1_INT_STATUS / _MASK_N / _CLEAR the driver names.
I2CM_OP_DONE == "OP_DONE"
I2CM_READ_REQUEST == "READ_REQUEST"
I2CM_NACK_RCVD == "NACK_RCVD"
I2CM_IRQ_BITS == {I2CM_OP_DONE, I2CM_READ_REQUEST, I2CM_NACK_RCVD}

\* Values of the I2CM_WR_MASK field of I2CM_INTERFACE_CONTROL0.
I2CM_FM_WRITE == "FM_WRITE"
I2CM_FM_READ == "FM_READ"
I2CM_EXT_READ == "EXT_READ"
I2CM_IDLE == "NONE"

(***************************************************************************)
(* Bounds and input sets.                                                  *)
(***************************************************************************)
\* Longest message batch a caller passes to the master transfer.
MaxMsgs == 2

\* Number of master-transfer calls made in a run.
MaxXfers == 2

\* Register pointers and data bytes used in messages.  255 makes the u8
\* register pointer wrap.
RegPtrs == {255}
DataBytes == {1, 2}

\* The contexts that call the adapter concurrently: a display callback
\* (EDID read, SCDC access from enable/disable/detect) and the scrambling
\* recheck task.
Callers == {"display", "recheck"}
NoOwner == "none"

WrMsg(a, b) == [addr |-> a, rd |-> FALSE, len |-> Len(b), buf |-> b]
RdMsg(a, n) == [addr |-> a, rd |-> TRUE, len |-> n, buf |-> <<>>]

\* Messages a display callback may put in a batch: register-pointer write,
\* register write, one-byte read, a zero-length message, a DDC/CI message
\* and a one-byte segment-pointer message.
Msgs ==
    {WrMsg(DDC_ADDR, <<r>>) : r \in RegPtrs}
    \cup {WrMsg(DDC_ADDR, <<r, v>>) : r \in RegPtrs, v \in DataBytes}
    \cup {RdMsg(DDC_ADDR, 1)}
    \cup {WrMsg(DDC_ADDR, <<>>)}
    \cup {WrMsg(DDC_CI_ADDR, <<r>>) : r \in RegPtrs}
    \cup {WrMsg(DDC_SEGMENT_ADDR, <<1>>)}

SeqsUpTo(S, n) == UNION {[1..k -> S] : k \in 1..n}

IsSegmentMsg(m) == m.addr = DDC_SEGMENT_ADDR /\ m.len = 1

IsDdcWrite(m) == m.addr = DDC_ADDR /\ ~m.rd /\ m.len > 0

\* The batch shapes of the DDC users (EDID and SCDC helpers): a register
\* pointer or register write comes first or right after segment-pointer
\* messages; what follows are reads.  Zero-length, DDC/CI and segment
\* messages may stand anywhere.
BatchShape(b) ==
    \A k \in 2..Len(b) :
        IsDdcWrite(b[k]) => \A j \in 1..(k - 1) : IsSegmentMsg(b[j])

Batches == {b \in SeqsUpTo(Msgs, MaxMsgs) : BatchShape(b)}

\* The recheck task goes through the SCDC helpers: a register read (pointer
\* write followed by a one-byte read) or a register write.
RecheckBatches ==
    {<<WrMsg(DDC_ADDR, <<r>>), RdMsg(DDC_ADDR, 1)>> : r \in RegPtrs}
    \cup {<<WrMsg(DDC_ADDR, <<r, v>>)>> : r \in RegPtrs, v \in DataBytes}

BatchesOf(c) == IF c = "recheck" THEN RecheckBatches ELSE Batches

\* The adapter is registered with the I2C core (i2c_add_adapter), so any
\* client may hand it any batch: messages in any order.
AnyBatches == SeqsUpTo(Msgs, MaxMsgs)

(***************************************************************************)
(* State.                                                                  *)
(***************************************************************************)
VARIABLES
    call,        \* per caller: position in dw_hdmi_qp_i2c_xfer and its locals
    nXfers,      \* number of master-transfer calls made so far
    lock,        \* i2c->lock owner
    cmp,         \* i2c->cmp.done
    i2cStat,     \* i2c->stat
    slave_reg,   \* i2c->slave_reg
    is_regaddr,  \* i2c->is_regaddr
    is_segment,  \* i2c->is_segment
    maskN,       \* MAINUNIT_1_INT_MASK_N: the unmasked sources
    intStatus,   \* MAINUNIT_1_INT_STATUS: latched sources
    ctrl0,       \* I2CM_INTERFACE_CONTROL0 fields: slvaddr, addr, wr
    ctrl1,       \* I2CM_INTERFACE_CONTROL1 fields: seg_addr, seg_ptr
    wrdata,      \* I2CM_INTERFACE_WRDATA_0_3
    rddata,      \* I2CM_INTERFACE_RDDATA_0_3
    hwBusy,      \* the I2C master has an operation in progress
    sinkMem,     \* the sink: (slave, segment, register) -> byte, 0 if absent
    shadow,      \* history: register -> byte of the last successful
                 \* transfer <<[r, v]>> with no later write to r: {v}, else {}
    clean,       \* history: no NACK and no timeout has occurred so far
    irq          \* the last invocation of dw_hdmi_qp_main_hardirq: the status
                 \* it read, what it wrote to MAINUNIT_1_INT_CLEAR, whether
                 \* it signalled i2c->cmp, what it returned

i2cVars == <<call, nXfers, lock, cmp, i2cStat, slave_reg, is_regaddr, is_segment>>
hwVars == <<maskN, intStatus, ctrl0, ctrl1, wrdata, rddata, hwBusy, sinkMem>>
histVars == <<shadow, clean>>
adapterVars == <<i2cVars, hwVars, histVars, irq>>

\* The link / scrambling state machine (Part II).
VARIABLES
    fw,              \* the commit context: position in atomic_enable /
                     \* atomic_disable and their locals
    det,             \* the detect context: position in bridge_detect
    wk,              \* the recheck execution: position in scramb_work
    dw,              \* hdmi->scramb_work: pending count, remaining delay,
                     \* contexts inside cancel_delayed_work_sync
    scramb_enabled,  \* hdmi->scramb_enabled
    connector,       \* hdmi->connector is set (TRUE) or NULL (FALSE)
    connStatus,      \* hdmi->connector->status, kept by the DRM core
    displayInfo,     \* hdmi->connector->display_info
    hpd,             \* what the PHY's read_hpd reports
    sinkScr,         \* the sink's SCDC scrambling status
    scrambCfg,       \* SCRAMB_CONFIG0
    opmode,          \* LINK_CONFIG0 OPMODE_DVI field
    linkOn,          \* between the start of atomic_enable and the end of
                     \* atomic_disable
    resetReq,        \* dw_hdmi_qp_reset_link waits for its commit
    nCommits,        \* atomic enables so far
    nDetects,        \* detect calls so far
    enLog            \* history: scrambling steps of the current enable

linkVars == <<fw, det, wk, dw, scramb_enabled, connector, connStatus,
              displayInfo, hpd, sinkScr, scrambCfg, opmode, linkOn, resetReq,
              nCommits, nDetects, enLog>>

\* The infoframe encoder and the rate check (Part III).
VARIABLES
    ifr,             \* the bridge callback in progress: position in
                     \* write_infoframe / clear_infoframe /
                     \* tmds_char_rate_valid, arguments and locals
    pktEn,           \* PKTSCHED_PKT_EN: the transmit-enable bits set
    pktCfg1,         \* PKTSCHED_PKT_CONFIG1: the field-rate bits set
    aviContents,     \* PKT_AVI_CONTENTS0..4
    drmiContents,    \* PKT_DRMI_CONTENTS0..7
    pktOverrun,      \* registers behind PKT_DRMI_CONTENTS7 that were written
    nCalls           \* infoframe and rate callbacks made so far

pktVars == <<ifr, pktEn, pktCfg1, aviContents, drmiContents, pktOverrun,
             nCalls>>

\* The AP6275P power sequencer (Part IV).
VARIABLES
    ps,              \* the power request in progress under the sequencer's
                     \* state lock: position, consumer, unit, return value
    enable_count,    \* per unit: how many enables are outstanding
    powered_on,      \* per consumer: its target is powered on for it
    clocks,          \* ctx->clocks: the clocks prepared and enabled
    supplies,        \* ctx->supplies: the regulators enabled
    bt_gpio,         \* value driven on ctx->bt_gpio
    wlan_gpio,       \* value driven on ctx->wlan_gpio
    nPwrOps          \* power requests made so far

pwrVars == <<ps, enable_count, powered_on, clocks, supplies, bt_gpio,
             wlan_gpio, nPwrOps>>

\* dw_hdmi_qp_bind (Part V).
VARIABLES
    bind,            \* position in dw_hdmi_qp_bind, its platform data and
                     \* what it returned
    handler,         \* dw_hdmi_qp_main_hardirq is registered on the line
    i2c_set,         \* hdmi->i2c points to the I2C context (else NULL)
    fault            \* what became of a handler invocation that found
                     \* hdmi->i2c NULL

bindVars == <<bind, handler, i2c_set, fault>>

nonAdapterVars == <<linkVars, pktVars, pwrVars, bindVars>>
nonLinkVars == <<adapterVars, pktVars, pwrVars, bindVars>>
nonPktVars == <<adapterVars, linkVars, pwrVars, bindVars>>
nonPwrVars == <<adapterVars, linkVars, pktVars, bindVars>>
nonBindVars == <<linkVars, pktVars, pwrVars>>

vars == <<adapterVars, linkVars, pktVars, pwrVars, bindVars>>

\* Bits of MAINUNIT_1_INT_STATUS that belong to other sources than the I2C
\* master.
OtherSources == {"OTHER_IRQ"}

\* No invocation of the interrupt handler yet.
NoIrq == [raw |-> {}, clear |-> {}, signal |-> FALSE, ret |-> "none"]

\* A caller's record.  msgs, i, pos, left, ret are the arguments and locals
\* of dw_hdmi_qp_i2c_xfer / _read / _write; rd collects the bytes stored to
\* the read buffers; wrote and resets record whether the call has written
\* any register and how often it wrote the soft reset.
IdleCall ==
    [pc |-> "idle", msgs |-> <<>>, i |-> 0, pos |-> 0, left |-> 0,
     ret |-> 0, rd |-> <<>>, wrote |-> FALSE, resets |-> 0]

\* The commit context at rest; rate, op_mode and supp are locals of
\* atomic_enable / enable_scramb (supp: what supports_scrambling answers),
\* reset marks a commit made for reset_link.
IdleCommit == [pc |-> "idle", rate |-> 0, op_mode |-> "HDMI",
               supp |-> FALSE, reset |-> FALSE]

\* The detect context at rest; status is the local of bridge_detect.
IdleDetect == [pc |-> "idle", status |-> "disconnected"]

\* No recheck executing.  found is the status the execution read; nRatio,
\* nScr and nArm count its sink commands and its effective
\* schedule_delayed_work.
IdleWork == [pc |-> "idle", found |-> FALSE, nRatio |-> 0, nScr |-> 0,
             nArm |-> 0]

\* The regulators and clocks of the module (ap6275p_supplies,
\* ap6275p_clocks).
ap6275p_supplies == {"vbat", "vddio"}
ap6275p_clocks == {"ref", "rtc"}

\* The units of the sequencer, by their .name, and its two targets.
Units == {"clock-enable", "regulators-enable", "bluetooth-enable",
          "wlan-enable"}
Targets == {"bluetooth", "wlan"}

\* The consumers holding a descriptor of a target: two of bluetooth, one
\* of wlan.
Descs == {"bt-a", "bt-b", "wlan-a"}
TargetOf(d) == IF d = "wlan-a" THEN "wlan" ELSE "bluetooth"

\* No power request in progress.  op is the request, desc its consumer, k
\* the position in the dependency list, ret the value returned.
IdlePs == [pc |-> "idle", op |-> "none", desc |-> "none", k |-> 0,
           ret |-> 0]

\* The reset value of a 32-bit register, as byte lanes.
Word0 == <<0, 0, 0, 0>>

\* No bridge callback of Part III in progress.  op is the callback, type,
\* buf and len (or mode and rate) its arguments, i and val the locals of the
\* encode loops, pre the registers at entry, nEnc the register writes the
\* encode function has issued, ret the value returned.
IdleIfr ==
    [pc |-> "idle", op |-> "none", type |-> "none", buf |-> <<>>,
     mode |-> "none", rate |-> 0, i |-> 0, val |-> Word0, nEnc |-> 0,
     ret |-> 0,
     pre |-> [en |-> {}, cfg1 |-> {}, avi |-> [w \in 0..4 |-> Word0],
              drmi |-> [w \in 0..7 |-> Word0], over |-> <<>>]]

\* display_info of a connector with no EDID.
NoDisplayInfo == [is_hdmi |-> FALSE, scdc |-> FALSE, scrambling |-> FALSE]

\* The state dw_hdmi_qp_bind leaves: dw_hdmi_qp_init_hw masks and clears
\* the interrupts, dw_hdmi_qp_i2c_adapter zero-allocates the I2C context.
InitAdapter ==
    /\ call = [c \in Callers |-> IdleCall]
    /\ nXfers = 0
    /\ lock = NoOwner
    /\ cmp = 0
    /\ i2cStat = {}
    /\ slave_reg = 0
    /\ is_regaddr = FALSE
    /\ is_segment = FALSE
    /\ maskN = {}
    /\ intStatus = {}
    /\ ctrl0 = [slvaddr |-> 0, addr |-> 0, wr |-> I2CM_IDLE]
    /\ ctrl1 = [seg_addr |-> 0, seg_ptr |-> 0]
    /\ wrdata = 0
    /\ rddata = 0
    /\ hwBusy = FALSE
    /\ sinkMem = <<>>
    /\ shadow = [r \in RegPtrs |-> {}]
    /\ clean = TRUE
    /\ irq = NoIrq

\* devm_kzalloc leaves scramb_enabled false and connector NULL; no commit
\* and no detect has run.
InitLink ==
    /\ fw = IdleCommit
    /\ det = IdleDetect
    /\ wk = IdleWork
    /\ dw = [pending |-> 0, timer |-> 0, canceling |-> {}]
    /\ scramb_enabled = FALSE
    /\ connector = FALSE
    /\ connStatus = "unknown"
    /\ displayInfo = NoDisplayInfo
    /\ hpd = "connected"
    /\ sinkScr = FALSE
    /\ scrambCfg = 0
    /\ opmode = "HDMI"
    /\ linkOn = FALSE
    /\ resetReq = FALSE
    /\ nCommits = 0
    /\ nDetects = 0
    /\ enLog = <<>>

\* The packet scheduler and the packet-content registers after reset.
InitPkt ==
    /\ ifr = IdleIfr
    /\ pktEn = {}
    /\ pktCfg1 = {}
    /\ aviContents = [w \in 0..4 |-> Word0]
    /\ drmiContents = [w \in 0..7 |-> Word0]
    /\ pktOverrun = <<>>
    /\ nCalls = 0

\* pwrseq_ap6275p_probe: the GPIOs are requested GPIOD_OUT_LOW, nothing is
\* enabled, no consumer has powered a target on.
InitPwr ==
    /\ ps = IdlePs
    /\ enable_count = [u \in Units |-> 0]
    /\ powered_on = [d \in Descs |-> FALSE]
    /\ clocks = {}
    /\ supplies = {}
    /\ bt_gpio = 0
    /\ wlan_gpio = 0
    /\ nPwrOps = 0

\* Platform data handed to dw_hdmi_qp_bind: whether the mandatory PHY ops
\* are all there, whether the optional setup_hpd is.
PlatInputs == [ops : BOOLEAN, setup_hpd : BOOLEAN]

\* dw_hdmi_qp_bind has returned the controller: the handler is registered
\* and the I2C context is stored.
InitBound ==
    /\ bind = [pc |-> "bound", ret |-> "ok",
               plat |-> [ops |-> TRUE, setup_hpd |-> TRUE]]
    /\ handler = TRUE
    /\ i2c_set = TRUE
    /\ fault = "none"

\* dw_hdmi_qp_bind is about to be called; devm_kzalloc will hand out a
\* zeroed controller state, so hdmi->i2c is NULL.
InitBind ==
    /\ bind \in {[pc |-> "check_ops", ret |-> "none", plat |-> p] :
                   p \in PlatInputs}
    /\ handler = FALSE
    /\ i2c_set = FALSE
    /\ fault = "none"

Init == InitAdapter /\ InitLink /\ InitPkt /\ InitPwr /\ InitBound

(***************************************************************************)
(* The sink: a byte-addressed register file per slave address and segment. *)
(***************************************************************************)
SinkRead(mem, k) == IF k \in DOMAIN mem THEN mem[k] ELSE 0

SinkWrite(mem, k, v) ==
    [x \in (DOMAIN mem) \cup {k} |-> IF x = k THEN v ELSE mem[x]]

\* Upper bytes the hardware may leave in RDDATA_0_3 beside the byte read.
RdDataUpper == {0, 1}

(***************************************************************************)
(* dw_hdmi_qp_i2c_xfer: input validation (before the lock is taken).       *)
(***************************************************************************)
IsDdcCi_Never(msgs) == FALSE

IsDdcCi(msgs) == msgs[1].addr = DDC_CI_ADDR

HasZeroLen_FirstOnly(msgs) == msgs[1].len = 0

HasZeroLen(msgs) == \E k \in 1..Len(msgs) : msgs[k].len = 0

\* Slave address programmed for the batch: that of the first message, with
\* a one-byte segment-pointer message standing for the DDC address.
SlaveAddr(msgs) == IF IsSegmentMsg(msgs[1]) THEN DDC_ADDR ELSE msgs[1].addr

\* A return is observed before anything else happens: XferReturn changes
\* nothing but the returning caller's own record, so this loses no
\* interleaving of the program.
Returning == \E c \in Callers : call[c].pc = "done"

XferEnterFrom(c, B) ==
    /\ ~Returning
    /\ call[c].pc = "idle"
    /\ nXfers < MaxXfers
    /\ nXfers' = nXfers + 1
    /\ \E msgs \in B :
         call' = [call EXCEPT ![c] =
                    IF IsDdcCi(msgs) \/ HasZeroLen(msgs)
                    THEN [IdleCall EXCEPT !.pc = "done", !.msgs = msgs,
                                          !.ret = EOPNOTSUPP]
                    ELSE [IdleCall EXCEPT !.pc = "lock", !.msgs = msgs]]
    /\ UNCHANGED <<lock, cmp, i2cStat, slave_reg, is_regaddr, is_segment>>
    /\ UNCHANGED <<hwVars, histVars>>
    /\ UNCHANGED <<irq, nonAdapterVars>>

\* A call made by one of the DDC users.
XferEnter(c) == XferEnterFrom(c, BatchesOf(c))

\* A call made through the I2C character device or another I2C client: any
\* sequence of messages.
XferEnterAny(c) == XferEnterFrom(c, AnyBatches)

LockFree_Always == TRUE

\* mutex_lock() proceeds only when nobody holds the mutex.
LockFree == lock = NoOwner

\* guard(mutex)(&i2c->lock)
MutexLock(c) ==
    /\ ~Returning
    /\ call[c].pc = "lock"
    /\ LockFree
    /\ lock' = c
    /\ call' = [call EXCEPT ![c].pc = "setup"]
    /\ UNCHANGED <<nXfers, cmp, i2cStat, slave_reg, is_regaddr, is_segment>>
    /\ UNCHANGED <<hwVars, histVars>>
    /\ UNCHANGED <<irq, nonAdapterVars>>

\* Unmute DONE and ERROR, program the slave address, reset the batch flags.
XferSetup(c) ==
    /\ ~Returning
    /\ call[c].pc = "setup"
    /\ maskN' = maskN \cup {I2CM_NACK_RCVD, I2CM_OP_DONE}
    /\ ctrl0' = [ctrl0 EXCEPT !.slvaddr = SlaveAddr(call[c].msgs)]
    /\ is_regaddr' = FALSE
    /\ is_segment' = FALSE
    /\ call' = [call EXCEPT ![c].pc = "msg", ![c].i = 1, ![c].wrote = TRUE]
    /\ UNCHANGED <<nXfers, lock, cmp, i2cStat, slave_reg>>
    /\ UNCHANGED <<intStatus, ctrl1, wrdata, rddata, hwBusy, sinkMem>>
    /\ UNCHANGED histVars
    /\ UNCHANGED <<irq, nonAdapterVars>>

ReadFirstReg_AlwaysZero(ra, reg) == 0

\* dw_hdmi_qp_i2c_read: the register pointer the first byte is read from.
ReadFirstReg(ra, reg) == IF ra THEN reg ELSE 0

WriteFirstReg_EveryMessage(ra, reg, buf) == buf[1]

\* dw_hdmi_qp_i2c_write: the register pointer the first data byte goes to.
WriteFirstReg(ra, reg, buf) == IF ra THEN reg ELSE buf[1]

\* One turn of the message loop: the loop test, the segment-pointer case,
\* or the entry of dw_hdmi_qp_i2c_read / dw_hdmi_qp_i2c_write up to their
\* byte loop.
XferMsg(c) ==
    LET k == call[c].i
        msgs == call[c].msgs
    IN
    /\ ~Returning
    /\ call[c].pc = "msg"
    /\ IF k > Len(msgs)
       THEN /\ call' = [call EXCEPT ![c].pc = "mute"]
            /\ UNCHANGED <<slave_reg, is_regaddr, is_segment, ctrl1>>
       ELSE IF IsSegmentMsg(msgs[k])
       THEN /\ is_segment' = TRUE
            /\ ctrl1' = [seg_addr |-> DDC_SEGMENT_ADDR,
                         seg_ptr |-> msgs[k].buf[1]]
            /\ call' = [call EXCEPT ![c].i = k + 1]
            /\ UNCHANGED <<slave_reg, is_regaddr>>
       ELSE IF msgs[k].rd
       THEN /\ slave_reg' = ReadFirstReg(is_regaddr, slave_reg)
            /\ is_regaddr' = TRUE
            /\ call' = [call EXCEPT ![c].pc = "byte", ![c].pos = 1,
                                    ![c].left = msgs[k].len]
            /\ UNCHANGED <<is_segment, ctrl1>>
       ELSE /\ slave_reg' = WriteFirstReg(is_regaddr, slave_reg, msgs[k].buf)
            /\ is_regaddr' = TRUE
            /\ call' = [call EXCEPT
                          ![c].pc = "byte",
                          ![c].pos = IF is_regaddr THEN 1 ELSE 2,
                          ![c].left = IF is_regaddr THEN msgs[k].len
                                      ELSE msgs[k].len - 1]
            /\ UNCHANGED <<is_segment, ctrl1>>
    /\ UNCHANGED <<nXfers, lock, cmp, i2cStat>>
    /\ UNCHANGED <<maskN, intStatus, ctrl0, wrdata, rddata, hwBusy, sinkMem>>
    /\ UNCHANGED histVars
    /\ UNCHANGED <<irq, nonAdapterVars>>

\* while (length--): either the message function returns 0, or the next
\* byte operation starts with reinit_completion().
XferByte(c) ==
    LET m == call[c].msgs[call[c].i] IN
    /\ ~Returning
    /\ call[c].pc = "byte"
    /\ IF call[c].left = 0
       THEN /\ is_segment' = IF m.rd THEN FALSE ELSE is_segment
            /\ call' = [call EXCEPT ![c].pc = "msg", ![c].i = call[c].i + 1]
            /\ UNCHANGED cmp
       ELSE /\ cmp' = 0
            /\ call' = [call EXCEPT ![c].pc = "strobe",
                                    ![c].left = call[c].left - 1]
            /\ UNCHANGED is_segment
    /\ UNCHANGED <<nXfers, lock, i2cStat, slave_reg, is_regaddr>>
    /\ UNCHANGED <<hwVars, histVars>>
    /\ UNCHANGED <<irq, nonAdapterVars>>

\* The register-pointer write and the read/write strobe of one byte.
XferStrobe(c) ==
    LET m == call[c].msgs[call[c].i] IN
    /\ ~Returning
    /\ call[c].pc = "strobe"
    /\ IF m.rd
       THEN /\ ctrl0' = [ctrl0 EXCEPT
                           !.addr = slave_reg,
                           !.wr = IF is_segment THEN I2CM_EXT_READ
                                  ELSE I2CM_FM_READ]
            /\ UNCHANGED wrdata
            /\ call' = [call EXCEPT ![c].pc = "wait"]
       ELSE /\ wrdata' = m.buf[call[c].pos]
            /\ ctrl0' = [ctrl0 EXCEPT !.addr = slave_reg, !.wr = I2CM_FM_WRITE]
            /\ call' = [call EXCEPT ![c].pc = "wait",
                                    ![c].pos = call[c].pos + 1]
    /\ slave_reg' = (slave_reg + 1) % U8
    /\ hwBusy' = TRUE
    /\ UNCHANGED <<nXfers, lock, cmp, i2cStat, is_regaddr, is_segment>>
    /\ UNCHANGED <<maskN, intStatus, ctrl1, rddata, sinkMem>>
    /\ UNCHANGED histVars
    /\ UNCHANGED <<irq, nonAdapterVars>>

\* wait_for_completion_timeout() returns non-zero: a completion was there.
XferWaitDone(c) ==
    /\ ~Returning
    /\ call[c].pc = "wait"
    /\ cmp > 0
    /\ cmp' = cmp - 1
    /\ call' = [call EXCEPT ![c].pc = "check"]
    /\ UNCHANGED <<nXfers, lock, i2cStat, slave_reg, is_regaddr, is_segment>>
    /\ UNCHANGED <<hwVars, histVars>>
    /\ UNCHANGED <<irq, nonAdapterVars>>

OpError_NackIgnored(waited, stat) == IF ~waited THEN EAGAIN ELSE 0

\* The outcome of one byte operation after its wait: -EAGAIN when the wait
\* timed out, -EIO when the status snapshot holds NACK, else 0 (go on).
OpError(waited, stat) ==
    IF ~waited THEN EAGAIN
    ELSE IF I2CM_NACK_RCVD \in stat THEN EIO
    ELSE 0

TimeoutExpires_Never == FALSE

\* wait_for_completion_timeout(&i2c->cmp, HZ / 10): the wait is bounded, the
\* 100 ms pass whether or not the completion is signalled.
TimeoutExpires == TRUE

\* wait_for_completion_timeout() returns 0: soft reset, -EAGAIN.
XferWaitTimeout(c) ==
    /\ ~Returning
    /\ call[c].pc = "wait"
    /\ cmp = 0
    /\ TimeoutExpires
    /\ hwBusy' = FALSE
    /\ call' = [call EXCEPT ![c].pc = "mute",
                            ![c].ret = OpError(FALSE, i2cStat),
                            ![c].resets = call[c].resets + 1]
    /\ clean' = FALSE
    /\ UNCHANGED <<nXfers, lock, cmp, i2cStat, slave_reg, is_regaddr, is_segment>>
    /\ UNCHANGED <<maskN, intStatus, ctrl0, ctrl1, wrdata, rddata, sinkMem>>
    /\ UNCHANGED shadow
    /\ UNCHANGED <<irq, nonAdapterVars>>

\* After the wait: the NACK check, else the byte is taken (read) and the
\* strobe is cleared.
XferCheck(c) ==
    LET m == call[c].msgs[call[c].i] IN
    /\ ~Returning
    /\ call[c].pc = "check"
    /\ IF OpError(TRUE, i2cStat) # 0
       THEN /\ hwBusy' = FALSE
            /\ call' = [call EXCEPT ![c].pc = "mute",
                                    ![c].ret = OpError(TRUE, i2cStat),
                                    ![c].resets = call[c].resets + 1]
            /\ UNCHANGED ctrl0
       ELSE /\ call' = [call EXCEPT
                          ![c].pc = "byte",
                          ![c].rd = IF m.rd
                                    THEN Append(call[c].rd, rddata % U8)
                                    ELSE call[c].rd]
            /\ ctrl0' = [ctrl0 EXCEPT !.wr = I2CM_IDLE]
            /\ UNCHANGED hwBusy
    /\ UNCHANGED <<nXfers, lock, cmp, i2cStat, slave_reg, is_regaddr, is_segment>>
    /\ UNCHANGED <<maskN, intStatus, ctrl1, wrdata, rddata, sinkMem>>
    /\ UNCHANGED histVars
    /\ UNCHANGED <<irq, nonAdapterVars>>

MuteMask_OnlyOnSuccess(ret) ==
    IF ret < 0 THEN maskN ELSE maskN \ {I2CM_OP_DONE, I2CM_NACK_RCVD}

\* Mute DONE and ERROR interrupts: the mask register on exit.
MuteMask(ret) == maskN \ {I2CM_OP_DONE, I2CM_NACK_RCVD}

\* A batch that is one register write [r, v] to the DDC slave.
IsRegWrite(msgs) ==
    /\ Len(msgs) = 1
    /\ IsDdcWrite(msgs[1])
    /\ msgs[1].len = 2
    /\ msgs[1].buf[1] \in RegPtrs

\* Mute DONE and ERROR, return (the guard releases the lock).
XferMute(c) ==
    LET msgs == call[c].msgs IN
    /\ ~Returning
    /\ call[c].pc = "mute"
    /\ maskN' = MuteMask(call[c].ret)
    /\ lock' = NoOwner
    /\ call' = [call EXCEPT ![c].pc = "done",
                            ![c].ret = IF call[c].ret = 0
                                       THEN Len(msgs)
                                       ELSE call[c].ret]
    /\ shadow' = IF IsRegWrite(msgs) /\ call[c].ret = 0
                 THEN [shadow EXCEPT ![msgs[1].buf[1]] = {msgs[1].buf[2]}]
                 ELSE shadow
    /\ UNCHANGED <<nXfers, cmp, i2cStat, slave_reg, is_regaddr, is_segment>>
    /\ UNCHANGED <<intStatus, ctrl0, ctrl1, wrdata, rddata, hwBusy, sinkMem>>
    /\ UNCHANGED clean
    /\ UNCHANGED <<irq, nonAdapterVars>>

\* The caller has taken the result; it may call again.
XferReturn(c) ==
    /\ call[c].pc = "done"
    /\ call' = [call EXCEPT ![c] = IdleCall]
    /\ UNCHANGED <<nXfers, lock, cmp, i2cStat, slave_reg, is_regaddr, is_segment>>
    /\ UNCHANGED <<hwVars, histVars>>
    /\ UNCHANGED <<irq, nonAdapterVars>>

(***************************************************************************)
(* The I2C master hardware: it ends the operation the strobe started,      *)
(* acknowledged by the sink or not, and latches the status bit.            *)
(***************************************************************************)
HwComplete ==
    LET k == <<ctrl0.slvaddr,
               IF ctrl0.wr = I2CM_EXT_READ THEN ctrl1.seg_ptr ELSE 0,
               ctrl0.addr>>
    IN
    /\ ~Returning
    /\ hwBusy
    /\ hwBusy' = FALSE
    /\ \/ /\ ctrl0.wr = I2CM_FM_WRITE
          /\ sinkMem' = SinkWrite(sinkMem, k, wrdata)
          /\ intStatus' = intStatus \cup {I2CM_OP_DONE}
          /\ shadow' = [r \in RegPtrs |->
                          IF k = <<DDC_ADDR, 0, r>> THEN {} ELSE shadow[r]]
          /\ UNCHANGED <<rddata, clean>>
       \/ /\ ctrl0.wr \in {I2CM_FM_READ, I2CM_EXT_READ}
          /\ \E u \in RdDataUpper : rddata' = SinkRead(sinkMem, k) + U8 * u
          /\ intStatus' = intStatus \cup {I2CM_OP_DONE}
          /\ UNCHANGED <<sinkMem, shadow, clean>>
       \/ /\ intStatus' = intStatus \cup {I2CM_NACK_RCVD}
          /\ clean' = FALSE
          /\ UNCHANGED <<rddata, sinkMem, shadow>>
    /\ UNCHANGED i2cVars
    /\ UNCHANGED <<maskN, ctrl0, ctrl1, wrdata>>
    /\ UNCHANGED <<irq, nonAdapterVars>>

(***************************************************************************)
(* dw_hdmi_qp_main_hardirq.                                                *)
(***************************************************************************)
IrqReturn_MatchedOnly(stat) ==
    IF stat \cap I2CM_IRQ_BITS # {} THEN "IRQ_HANDLED" ELSE "IRQ_NONE"

\* if (stat) return IRQ_HANDLED; return IRQ_NONE;
IrqReturn(stat) == IF stat # {} THEN "IRQ_HANDLED" ELSE "IRQ_NONE"

\* One invocation, with the bits of other sources that MAINUNIT_1_INT_STATUS
\* shows beside the latched I2C bits.
MainHardirq(other) ==
    LET stat == intStatus \cup other
        istat == stat \cap I2CM_IRQ_BITS
    IN
    /\ i2cStat' = istat
    /\ IF istat # {}
       THEN /\ intStatus' = intStatus \ istat
            /\ cmp' = cmp + 1
       ELSE UNCHANGED <<intStatus, cmp>>
    /\ irq' = [raw |-> stat, clear |-> istat, signal |-> istat # {},
               ret |-> IrqReturn(stat)]
    /\ UNCHANGED <<call, nXfers, lock, slave_reg, is_regaddr, is_segment>>
    /\ UNCHANGED <<maskN, ctrl0, ctrl1, wrdata, rddata, hwBusy, sinkMem>>
    /\ UNCHANGED histVars
    /\ UNCHANGED nonAdapterVars

\* The controller raises the line: an unmasked source is latched.
DeviceIrq ==
    /\ ~Returning
    /\ intStatus \cap maskN # {}
    /\ \E other \in SUBSET OtherSources : MainHardirq(other)

\* IRQF_SHARED: another device on the line raises it.
SharedIrq ==
    /\ ~Returning
    /\ intStatus \cap maskN = {}
    /\ \E other \in SUBSET OtherSources : MainHardirq(other)

Next ==
    \/ \E c \in Callers :
         \/ XferEnter(c)
         \/ MutexLock(c)
         \/ XferSetup(c)
         \/ XferMsg(c)
         \/ XferByte(c)
         \/ XferStrobe(c)
         \/ XferWaitDone(c)
         \/ XferWaitTimeout(c)
         \/ XferCheck(c)
         \/ XferMute(c)
         \/ XferReturn(c)
    \/ HwComplete
    \/ DeviceIrq
    \/ SharedIrq

Spec == Init /\ [][Next]_vars

\* The adapter driven by one I2C client at a time with arbitrary batches.
NextAny ==
    \/ \E c \in {"display"} :
         \/ XferEnterAny(c)
         \/ MutexLock(c)
         \/ XferSetup(c)
         \/ XferMsg(c)
         \/ XferByte(c)
         \/ XferStrobe(c)
         \/ XferWaitDone(c)
         \/ XferWaitTimeout(c)
         \/ XferCheck(c)
         \/ XferMute(c)
         \/ XferReturn(c)
    \/ HwComplete
    \/ DeviceIrq
    \/ SharedIrq

SpecAny == Init /\ [][NextAny]_vars

\* The steps of a caller's thread inside dw_hdmi_qp_i2c_xfer once it holds
\* the lock, up to handing the result back.
CallerStep(c) ==
    \/ XferSetup(c)
    \/ XferMsg(c)
    \/ XferByte(c)
    \/ XferStrobe(c)
    \/ XferWaitDone(c)
    \/ XferWaitTimeout(c)
    \/ XferCheck(c)
    \/ XferMute(c)
    \/ XferReturn(c)

\* What the scheduler guarantees: a runnable thread runs, and a thread
\* queued on the mutex gets it once it is released often enough (the mutex
\* hands over to waiters).  Nothing is assumed of the hardware or of the
\* interrupt line: an operation may never complete, the handler may never
\* run.
Fairness ==
    \A c \in Callers : WF_vars(CallerStep(c)) /\ SF_vars(MutexLock(c))

SpecFair == Spec /\ Fairness

(***************************************************************************)
(* Part II: the link / scrambling state machine.                           *)
(*                                                                         *)
(* Three contexts run concurrently: the commit context (atomic_enable and  *)
(* atomic_disable, which the DRM core serialises and alternates), the      *)
(* detect context (bridge_detect) and the recheck execution of the delayed *)
(* work hdmi->scramb_work.  An SCDC access is one step; it reaches the     *)
(* sink when the sink is present and fails otherwise.                      *)
(***************************************************************************)
SCDC_MIN_SOURCE_VERSION == 1
HDMI14_MAX_TMDSCLK == 340000000
SCRAMB_POLL_DELAY_MS == 3000

\* Number of commits (atomic enables requested by userspace or by
\* dw_hdmi_qp_reset_link) and of detect calls in a run.
MaxCommits == 2
MaxDetects == 2

\* conn_state->hdmi.tmds_char_rate: the threshold and the first rate above.
Rates == {HDMI14_MAX_TMDSCLK, HDMI14_MAX_TMDSCLK + 1}

\* display_info: a DVI sink, an HDMI sink without scrambling support, an
\* HDMI sink with SCDC and scrambling support.
DisplayInfos ==
    {NoDisplayInfo,
     [is_hdmi |-> TRUE, scdc |-> TRUE, scrambling |-> FALSE],
     [is_hdmi |-> TRUE, scdc |-> TRUE, scrambling |-> TRUE]}

\* SCDC_SINK_VERSION values, and what the uninitialised u8 ver may hold
\* when the read fails.
SinkVersions == {0, 2}
UninitVals == {0, 255}

Min(a, b) == IF a < b THEN a ELSE b

\* An SCDC access succeeds when a sink is there to acknowledge it.
ScdcOk == hpd = "connected"

\* dw_hdmi_qp_supports_scrambling
SupportsScrambling(info) ==
    /\ info.is_hdmi
    /\ info.scdc /\ info.scrambling

NeedsScrambling_AtThreshold(rate) == rate >= HDMI14_MAX_TMDSCLK

\* atomic_enable: conn_state->hdmi.tmds_char_rate > HDMI14_MAX_TMDSCLK
NeedsScrambling(rate) == rate > HDMI14_MAX_TMDSCLK

ScrambOff_Always(flag) == TRUE

\* disable_scramb: if (!hdmi->scramb_enabled) return;
ScrambOff(flag) == ~flag

RecheckRearms_Always(status) == TRUE

RecheckRearms_Never(status) == FALSE

\* scramb_work: if (!drm_scdc_get_scrambling_status(...)) set_scramb
RecheckRearms(status) == ~status

(***************************************************************************)
(* The delayed work.  schedule_delayed_work queues the work unless it is   *)
(* already pending or a cancel_delayed_work_sync is in progress;           *)
(* cancel_delayed_work_sync takes the pending work off the timer, keeps    *)
(* the work from being queued while it waits, and returns when no          *)
(* execution is running.                                                   *)
(***************************************************************************)
ScheduleOk(d) == d.pending = 0 /\ d.canceling = {}

ScheduleDelayedWork(d) ==
    IF ScheduleOk(d)
    THEN [d EXCEPT !.pending = @ + 1, !.timer = SCRAMB_POLL_DELAY_MS]
    ELSE d

CancelGrab(d, t) == [d EXCEPT !.pending = 0, !.canceling = @ \cup {t}]

CancelRelease(d, t) == [d EXCEPT !.canceling = @ \ {t}]

WorkIdle == wk.pc = "idle"

\* A step of the scrambling sequence: the call, whether it took effect, the
\* value it worked from and the value it passed on.
LogStep(op, ok, arg, val) ==
    Append(enLog, [op |-> op, ok |-> ok, arg |-> arg, val |-> val])

(***************************************************************************)
(* dw_hdmi_qp_bridge_atomic_enable and dw_hdmi_qp_enable_scramb.           *)
(***************************************************************************)
\* Entry: bind the connector, pick the operating mode, decide on scrambling.
EnableEntry(rate, info, reset) ==
    LET scr == /\ info.is_hdmi
               /\ NeedsScrambling(rate)
               /\ SupportsScrambling(info)
    IN
    /\ fw' = [pc |-> IF scr THEN "scr_ver" ELSE "phy",
              rate |-> rate,
              op_mode |-> IF info.is_hdmi THEN "HDMI" ELSE "DVI",
              supp |-> SupportsScrambling(info),
              reset |-> reset]
    /\ connector' = TRUE
    /\ linkOn' = TRUE
    /\ enLog' = <<>>
    /\ UNCHANGED <<det, wk, dw, scramb_enabled, connStatus, hpd, sinkScr>>
    /\ UNCHANGED <<scrambCfg, opmode, resetReq, nDetects>>
    /\ UNCHANGED nonLinkVars

\* A commit from userspace enables the link.
AtomicEnable ==
    /\ fw.pc = "idle"
    /\ ~linkOn
    /\ nCommits < MaxCommits
    /\ nCommits' = nCommits + 1
    /\ \E rate \in Rates : \E info \in DisplayInfos :
         /\ displayInfo' = info
         /\ EnableEntry(rate, info, FALSE)

\* The enable half of the commit dw_hdmi_qp_reset_link made.
ResetEnable ==
    /\ fw.pc = "en_entry"
    /\ EnableEntry(fw.rate, displayInfo, TRUE)
    /\ UNCHANGED <<displayInfo, nCommits>>

\* drm_scdc_readb(SCDC_SINK_VERSION, &ver); drm_scdc_writeb(
\* SCDC_SOURCE_VERSION, min_t(u8, ver, SCDC_MIN_SOURCE_VERSION))
EnableVersion ==
    /\ fw.pc = "scr_ver"
    /\ \E v \in (IF ScdcOk THEN SinkVersions ELSE UninitVals) :
         /\ fw' = [fw EXCEPT !.pc = "scr_ratio"]
         /\ enLog' = LogStep("version", ScdcOk, v,
                             Min(v, SCDC_MIN_SOURCE_VERSION))
    /\ UNCHANGED <<det, wk, dw, scramb_enabled, connector, connStatus>>
    /\ UNCHANGED <<displayInfo, hpd, sinkScr, scrambCfg, opmode, linkOn>>
    /\ UNCHANGED <<resetReq, nCommits, nDetects>>
    /\ UNCHANGED nonLinkVars

\* set_scramb: drm_scdc_set_high_tmds_clock_ratio(connector, true)
EnableRatio ==
    /\ fw.pc = "scr_ratio"
    /\ fw' = [fw EXCEPT !.pc = "scr_on"]
    /\ enLog' = LogStep("ratio", ScdcOk, 1, 1)
    /\ UNCHANGED <<det, wk, dw, scramb_enabled, connector, connStatus>>
    /\ UNCHANGED <<displayInfo, hpd, sinkScr, scrambCfg, opmode, linkOn>>
    /\ UNCHANGED <<resetReq, nCommits, nDetects>>
    /\ UNCHANGED nonLinkVars

\* set_scramb: drm_scdc_set_scrambling(connector, true)
EnableScrambling ==
    /\ fw.pc = "scr_on"
    /\ fw' = [fw EXCEPT !.pc = "scr_arm"]
    /\ sinkScr' = (ScdcOk \/ sinkScr)
    /\ enLog' = LogStep("scramble", ScdcOk, 1, 1)
    /\ UNCHANGED <<det, wk, dw, scramb_enabled, connector, connStatus>>
    /\ UNCHANGED <<displayInfo, hpd, scrambCfg, opmode, linkOn>>
    /\ UNCHANGED <<resetReq, nCommits, nDetects>>
    /\ UNCHANGED nonLinkVars

\* set_scramb: schedule_delayed_work(&hdmi->scramb_work, 3000 ms)
EnableArm ==
    /\ fw.pc = "scr_arm"
    /\ fw' = [fw EXCEPT !.pc = "scr_cfg"]
    /\ dw' = ScheduleDelayedWork(dw)
    /\ enLog' = LogStep("arm", ScheduleOk(dw), SCRAMB_POLL_DELAY_MS,
                        SCRAMB_POLL_DELAY_MS)
    /\ UNCHANGED <<det, wk, scramb_enabled, connector, connStatus>>
    /\ UNCHANGED <<displayInfo, hpd, sinkScr, scrambCfg, opmode, linkOn>>
    /\ UNCHANGED <<resetReq, nCommits, nDetects>>
    /\ UNCHANGED nonLinkVars

\* dw_hdmi_qp_write(hdmi, 1, SCRAMB_CONFIG0); hdmi->scramb_enabled = true
EnableLocal ==
    /\ fw.pc = "scr_cfg"
    /\ fw' = [fw EXCEPT !.pc = "phy"]
    /\ scrambCfg' = 1
    /\ scramb_enabled' = TRUE
    /\ enLog' = LogStep("local", TRUE, 1, 1)
    /\ UNCHANGED <<det, wk, dw, connector, connStatus>>
    /\ UNCHANGED <<displayInfo, hpd, sinkScr, opmode, linkOn>>
    /\ UNCHANGED <<resetReq, nCommits, nDetects>>
    /\ UNCHANGED nonLinkVars

\* PHY init, HDCP2 bypass, LINK_CONFIG0 operating mode, infoframes: the end
\* of atomic_enable.
EnableLink ==
    /\ fw.pc = "phy"
    /\ opmode' = fw.op_mode
    /\ resetReq' = (resetReq /\ ~fw.reset)
    /\ fw' = [IdleCommit EXCEPT !.rate = fw.rate]
    /\ enLog' = <<>>
    /\ UNCHANGED <<det, wk, dw, scramb_enabled, connector, connStatus>>
    /\ UNCHANGED <<displayInfo, hpd, sinkScr, scrambCfg, linkOn>>
    /\ UNCHANGED <<nCommits, nDetects>>
    /\ UNCHANGED nonLinkVars

(***************************************************************************)
(* dw_hdmi_qp_bridge_atomic_disable and dw_hdmi_qp_disable_scramb.         *)
(***************************************************************************)
\* Entry, by a commit from userspace or as the disable half of the commit
\* dw_hdmi_qp_reset_link made: the early return, or scramb_enabled = false.
AtomicDisable ==
    /\ fw.pc = "idle"
    /\ linkOn
    /\ \E r \in {FALSE, resetReq} :
         fw' = [fw EXCEPT !.pc = IF ScrambOff(scramb_enabled)
                                 THEN "dis_phy" ELSE "dis_cancel",
                         !.reset = r]
    /\ scramb_enabled' = FALSE
    /\ UNCHANGED <<det, wk, dw, connector, connStatus, displayInfo, hpd>>
    /\ UNCHANGED <<sinkScr, scrambCfg, opmode, linkOn, resetReq>>
    /\ UNCHANGED <<nCommits, nDetects, enLog>>
    /\ UNCHANGED nonLinkVars

\* cancel_delayed_work_sync(&hdmi->scramb_work): take the pending work
DisableCancel ==
    /\ fw.pc = "dis_cancel"
    /\ fw' = [fw EXCEPT !.pc = "dis_wait"]
    /\ dw' = CancelGrab(dw, "commit")
    /\ UNCHANGED <<det, wk, scramb_enabled, connector, connStatus>>
    /\ UNCHANGED <<displayInfo, hpd, sinkScr, scrambCfg, opmode, linkOn>>
    /\ UNCHANGED <<resetReq, nCommits, nDetects, enLog>>
    /\ UNCHANGED nonLinkVars

\* cancel_delayed_work_sync: wait for a running execution, then return
DisableWait ==
    /\ fw.pc = "dis_wait"
    /\ WorkIdle
    /\ fw' = [fw EXCEPT !.pc = "dis_cfg"]
    /\ dw' = CancelRelease(dw, "commit")
    /\ UNCHANGED <<det, wk, scramb_enabled, connector, connStatus>>
    /\ UNCHANGED <<displayInfo, hpd, sinkScr, scrambCfg, opmode, linkOn>>
    /\ UNCHANGED <<resetReq, nCommits, nDetects, enLog>>
    /\ UNCHANGED nonLinkVars

\* dw_hdmi_qp_write(hdmi, 0, SCRAMB_CONFIG0)
DisableLocal ==
    /\ fw.pc = "dis_cfg"
    /\ fw' = [fw EXCEPT !.pc = IF connStatus # "disconnected"
                                THEN "dis_sink" ELSE "dis_phy"]
    /\ scrambCfg' = 0
    /\ UNCHANGED <<det, wk, dw, scramb_enabled, connector, connStatus>>
    /\ UNCHANGED <<displayInfo, hpd, sinkScr, opmode, linkOn>>
    /\ UNCHANGED <<resetReq, nCommits, nDetects, enLog>>
    /\ UNCHANGED nonLinkVars

\* drm_scdc_set_scrambling(false); drm_scdc_set_high_tmds_clock_ratio(false)
DisableSink ==
    /\ fw.pc = "dis_sink"
    /\ fw' = [fw EXCEPT !.pc = "dis_phy"]
    /\ sinkScr' = (sinkScr /\ ~ScdcOk)
    /\ UNCHANGED <<det, wk, dw, scramb_enabled, connector, connStatus>>
    /\ UNCHANGED <<displayInfo, hpd, scrambCfg, opmode, linkOn>>
    /\ UNCHANGED <<resetReq, nCommits, nDetects, enLog>>
    /\ UNCHANGED nonLinkVars

\* hdmi->connector = NULL; phy.ops->disable: the end of atomic_disable.  A
\* commit made for reset_link goes on to enable the link again.
DisablePhy ==
    /\ fw.pc = "dis_phy"
    /\ fw' = IF fw.reset THEN [fw EXCEPT !.pc = "en_entry"] ELSE IdleCommit
    /\ connector' = FALSE
    /\ linkOn' = FALSE
    /\ UNCHANGED <<det, wk, dw, scramb_enabled, connStatus, displayInfo>>
    /\ UNCHANGED <<hpd, sinkScr, scrambCfg, opmode>>
    /\ UNCHANGED <<resetReq, nCommits, nDetects, enLog>>
    /\ UNCHANGED nonLinkVars

\* The commit of reset_link finds the link already disabled (the CRTC is
\* not active): nothing to do.
ResetNoop ==
    /\ fw.pc = "idle"
    /\ resetReq
    /\ ~linkOn
    /\ resetReq' = FALSE
    /\ UNCHANGED <<fw, det, wk, dw, scramb_enabled, connector, connStatus>>
    /\ UNCHANGED <<displayInfo, hpd, sinkScr, scrambCfg, opmode, linkOn>>
    /\ UNCHANGED <<nCommits, nDetects, enLog>>
    /\ UNCHANGED nonLinkVars

(***************************************************************************)
(* dw_hdmi_qp_scramb_work, run by the workqueue when the delay has passed. *)
(***************************************************************************)
\* The delay of the pending work elapses.
TimerExpire ==
    /\ dw.pending > 0
    /\ dw.timer > 0
    /\ dw' = [dw EXCEPT !.timer = 0]
    /\ UNCHANGED <<fw, det, wk, scramb_enabled, connector, connStatus>>
    /\ UNCHANGED <<displayInfo, hpd, sinkScr, scrambCfg, opmode, linkOn>>
    /\ UNCHANGED <<resetReq, nCommits, nDetects, enLog>>
    /\ UNCHANGED nonLinkVars

\* The workqueue starts the execution: the work is no longer pending.
WorkStart ==
    /\ dw.pending > 0
    /\ dw.timer = 0
    /\ WorkIdle
    /\ dw' = [dw EXCEPT !.pending = @ - 1]
    /\ wk' = [IdleWork EXCEPT !.pc = "status"]
    /\ UNCHANGED <<fw, det, scramb_enabled, connector, connStatus>>
    /\ UNCHANGED <<displayInfo, hpd, sinkScr, scrambCfg, opmode, linkOn>>
    /\ UNCHANGED <<resetReq, nCommits, nDetects, enLog>>
    /\ UNCHANGED nonLinkVars

\* drm_scdc_get_scrambling_status(hdmi->connector): false when the read
\* fails
WorkStatus ==
    LET status == ScdcOk /\ sinkScr IN
    /\ wk.pc = "status"
    /\ wk' = [wk EXCEPT !.found = status,
                        !.pc = IF RecheckRearms(status)
                               THEN "ratio" ELSE "ret"]
    /\ UNCHANGED <<fw, det, dw, scramb_enabled, connector, connStatus>>
    /\ UNCHANGED <<displayInfo, hpd, sinkScr, scrambCfg, opmode, linkOn>>
    /\ UNCHANGED <<resetReq, nCommits, nDetects, enLog>>
    /\ UNCHANGED nonLinkVars

\* set_scramb: drm_scdc_set_high_tmds_clock_ratio(connector, true)
WorkRatio ==
    /\ wk.pc = "ratio"
    /\ wk' = [wk EXCEPT !.pc = "scramble", !.nRatio = @ + 1]
    /\ UNCHANGED <<fw, det, dw, scramb_enabled, connector, connStatus>>
    /\ UNCHANGED <<displayInfo, hpd, sinkScr, scrambCfg, opmode, linkOn>>
    /\ UNCHANGED <<resetReq, nCommits, nDetects, enLog>>
    /\ UNCHANGED nonLinkVars

\* set_scramb: drm_scdc_set_scrambling(connector, true)
WorkScrambling ==
    /\ wk.pc = "scramble"
    /\ wk' = [wk EXCEPT !.pc = "arm", !.nScr = @ + 1]
    /\ sinkScr' = (ScdcOk \/ sinkScr)
    /\ UNCHANGED <<fw, det, dw, scramb_enabled, connector, connStatus>>
    /\ UNCHANGED <<displayInfo, hpd, scrambCfg, opmode, linkOn>>
    /\ UNCHANGED <<resetReq, nCommits, nDetects, enLog>>
    /\ UNCHANGED nonLinkVars

\* set_scramb: schedule_delayed_work(&hdmi->scramb_work, 3000 ms)
WorkArm ==
    /\ wk.pc = "arm"
    /\ wk' = [wk EXCEPT !.pc = "ret",
                        !.nArm = IF ScheduleOk(dw) THEN @ + 1 ELSE @]
    /\ dw' = ScheduleDelayedWork(dw)
    /\ UNCHANGED <<fw, det, scramb_enabled, connector, connStatus>>
    /\ UNCHANGED <<displayInfo, hpd, sinkScr, scrambCfg, opmode, linkOn>>
    /\ UNCHANGED <<resetReq, nCommits, nDetects, enLog>>
    /\ UNCHANGED nonLinkVars

\* The execution returns.
WorkReturn ==
    /\ wk.pc = "ret"
    /\ wk' = IdleWork
    /\ UNCHANGED <<fw, det, dw, scramb_enabled, connector, connStatus>>
    /\ UNCHANGED <<displayInfo, hpd, sinkScr, scrambCfg, opmode, linkOn>>
    /\ UNCHANGED <<resetReq, nCommits, nDetects, enLog>>
    /\ UNCHANGED nonLinkVars

(***************************************************************************)
(* dw_hdmi_qp_bridge_detect and dw_hdmi_qp_reset_link.                     *)
(***************************************************************************)
\* status = read_hpd(); if (hdmi->scramb_enabled) cancel...
DetectEntry ==
    /\ det.pc = "idle"
    /\ nDetects < MaxDetects
    /\ nDetects' = nDetects + 1
    /\ det' = [pc |-> IF scramb_enabled THEN "cancel" ELSE "check",
               status |-> hpd]
    /\ UNCHANGED <<fw, wk, dw, scramb_enabled, connector, connStatus>>
    /\ UNCHANGED <<displayInfo, hpd, sinkScr, scrambCfg, opmode, linkOn>>
    /\ UNCHANGED <<resetReq, nCommits, enLog>>
    /\ UNCHANGED nonLinkVars

\* cancel_delayed_work_sync(&hdmi->scramb_work): take the pending work
DetectCancel ==
    /\ det.pc = "cancel"
    /\ det' = [det EXCEPT !.pc = "wait"]
    /\ dw' = CancelGrab(dw, "detect")
    /\ UNCHANGED <<fw, wk, scramb_enabled, connector, connStatus>>
    /\ UNCHANGED <<displayInfo, hpd, sinkScr, scrambCfg, opmode, linkOn>>
    /\ UNCHANGED <<resetReq, nCommits, nDetects, enLog>>
    /\ UNCHANGED nonLinkVars

\* cancel_delayed_work_sync: wait for a running execution, then return
DetectWait ==
    /\ det.pc = "wait"
    /\ WorkIdle
    /\ det' = [det EXCEPT !.pc = "check"]
    /\ dw' = CancelRelease(dw, "detect")
    /\ UNCHANGED <<fw, wk, scramb_enabled, connector, connStatus>>
    /\ UNCHANGED <<displayInfo, hpd, sinkScr, scrambCfg, opmode, linkOn>>
    /\ UNCHANGED <<resetReq, nCommits, nDetects, enLog>>
    /\ UNCHANGED nonLinkVars

DetectStops_DisconnectedOnly(status, conn) == status = "disconnected"

\* status == connector_status_disconnected || !hdmi->connector
DetectStops(status, conn) == status = "disconnected" \/ ~conn

\* Disconnected or no connector: return.  Otherwise read the EDID and
\* update the connector with it; no EDID clears display_info and returns.
DetectEdid ==
    /\ det.pc = "check"
    /\ IF DetectStops(det.status, connector)
       THEN /\ det' = [det EXCEPT !.pc = "ret"]
            /\ UNCHANGED displayInfo
       ELSE IF ScdcOk
            THEN /\ det' = [det EXCEPT !.pc = "scramb"]
                 /\ \E info \in DisplayInfos : displayInfo' = info
            ELSE /\ det' = [det EXCEPT !.pc = "ret"]
                 /\ displayInfo' = NoDisplayInfo
    /\ UNCHANGED <<fw, wk, dw, scramb_enabled, connector, connStatus>>
    /\ UNCHANGED <<hpd, sinkScr, scrambCfg, opmode, linkOn>>
    /\ UNCHANGED <<resetReq, nCommits, nDetects, enLog>>
    /\ UNCHANGED nonLinkVars

\* Scrambling not enabled, not supported, or reported active by the sink:
\* return.  Otherwise reset the link.
DetectScramb ==
    /\ det.pc = "scramb"
    /\ det' = [det EXCEPT !.pc =
                 IF \/ ~scramb_enabled
                    \/ ~SupportsScrambling(displayInfo)
                    \/ (ScdcOk /\ sinkScr)
                 THEN "ret" ELSE "reset"]
    /\ UNCHANGED <<fw, wk, dw, scramb_enabled, connector, connStatus>>
    /\ UNCHANGED <<displayInfo, hpd, sinkScr, scrambCfg, opmode, linkOn>>
    /\ UNCHANGED <<resetReq, nCommits, nDetects, enLog>>
    /\ UNCHANGED nonLinkVars

\* dw_hdmi_qp_reset_link: return at once (no CRTC, CRTC not active, commit
\* not done), or commit a modeset of the CRTC and wait for it.
DetectResetLink ==
    /\ det.pc = "reset"
    /\ \/ /\ det' = [det EXCEPT !.pc = "ret"]
          /\ UNCHANGED <<resetReq, nCommits>>
       \/ /\ linkOn
          /\ ~resetReq
          /\ nCommits < MaxCommits
          /\ nCommits' = nCommits + 1
          /\ resetReq' = TRUE
          /\ det' = [det EXCEPT !.pc = "commit"]
    /\ UNCHANGED <<fw, wk, dw, scramb_enabled, connector, connStatus>>
    /\ UNCHANGED <<displayInfo, hpd, sinkScr, scrambCfg, opmode, linkOn>>
    /\ UNCHANGED <<nDetects, enLog>>
    /\ UNCHANGED nonLinkVars

\* drm_atomic_commit has returned.
DetectResetDone ==
    /\ det.pc = "commit"
    /\ ~resetReq
    /\ det' = [det EXCEPT !.pc = "ret"]
    /\ UNCHANGED <<fw, wk, dw, scramb_enabled, connector, connStatus>>
    /\ UNCHANGED <<displayInfo, hpd, sinkScr, scrambCfg, opmode, linkOn>>
    /\ UNCHANGED <<resetReq, nCommits, nDetects, enLog>>
    /\ UNCHANGED nonLinkVars

\* return status: the DRM core stores it in connector->status.
DetectReturn ==
    /\ det.pc = "ret"
    /\ connStatus' = det.status
    /\ det' = IdleDetect
    /\ UNCHANGED <<fw, wk, dw, scramb_enabled, connector>>
    /\ UNCHANGED <<displayInfo, hpd, sinkScr, scrambCfg, opmode, linkOn>>
    /\ UNCHANGED <<resetReq, nCommits, nDetects, enLog>>
    /\ UNCHANGED nonLinkVars

(***************************************************************************)
(* The environment: the cable and the sink.                                *)
(***************************************************************************)
\* The sink is plugged or unplugged.
HpdChange ==
    /\ hpd' = IF hpd = "connected" THEN "disconnected" ELSE "connected"
    /\ UNCHANGED <<fw, det, wk, dw, scramb_enabled, connector, connStatus>>
    /\ UNCHANGED <<displayInfo, sinkScr, scrambCfg, opmode, linkOn>>
    /\ UNCHANGED <<resetReq, nCommits, nDetects, enLog>>
    /\ UNCHANGED nonLinkVars

\* The sink stops scrambling on its own (a sink reset).
SinkDrop ==
    /\ sinkScr
    /\ sinkScr' = FALSE
    /\ UNCHANGED <<fw, det, wk, dw, scramb_enabled, connector, connStatus>>
    /\ UNCHANGED <<displayInfo, hpd, scrambCfg, opmode, linkOn>>
    /\ UNCHANGED <<resetReq, nCommits, nDetects, enLog>>
    /\ UNCHANGED nonLinkVars

LinkNext ==
    \/ AtomicEnable
    \/ ResetEnable
    \/ EnableVersion
    \/ EnableRatio
    \/ EnableScrambling
    \/ EnableArm
    \/ EnableLocal
    \/ EnableLink
    \/ AtomicDisable
    \/ DisableCancel
    \/ DisableWait
    \/ DisableLocal
    \/ DisableSink
    \/ DisablePhy
    \/ ResetNoop
    \/ TimerExpire
    \/ WorkStart
    \/ WorkStatus
    \/ WorkRatio
    \/ WorkScrambling
    \/ WorkArm
    \/ WorkReturn
    \/ DetectEntry
    \/ DetectCancel
    \/ DetectWait
    \/ DetectEdid
    \/ DetectScramb
    \/ DetectResetLink
    \/ DetectResetDone
    \/ DetectReturn
    \/ HpdChange
    \/ SinkDrop

SpecLink == Init /\ [][LinkNext]_vars

(***************************************************************************)
(* Part III: the infoframe encoder (bridge_write_infoframe,                *)
(* bridge_clear_infoframe, config_avi_infoframe, config_drm_infoframe) and *)
(* the TMDS rate check.  Specification: SpecPkt.                           *)
(***************************************************************************)
\* HDMI_INFOFRAME_SIZE(AVI) and HDMI_INFOFRAME_SIZE(DRM) of <linux/hdmi.h>:
\* the 4-byte header and the 13-byte / 26-byte body.
HDMI_INFOFRAME_SIZE_AVI == 17
HDMI_INFOFRAME_SIZE_DRM == 30
HDMI20_MAX_TMDSRATE == 600000000
EINVAL == -22

\* Bits of PKTSCHED_PKT_EN and PKTSCHED_PKT_CONFIG1 the driver names.
PKTSCHED_AVI_TX_EN == "AVI_TX_EN"
PKTSCHED_GCP_TX_EN == "GCP_TX_EN"
PKTSCHED_DRMI_TX_EN == "DRMI_TX_EN"
PKTSCHED_AVI_FIELDRATE == "AVI_FIELDRATE"
PKTSCHED_DRMI_FIELDRATE == "DRMI_FIELDRATE"

\* Number of infoframe and rate callbacks made in a run.
MaxCalls == 3

\* enum hdmi_infoframe_type values passed to the callbacks; AUDIO stands for
\* the types the driver does not handle.
InfoframeTypes == {"AVI", "DRM", "AUDIO"}

\* A buffer of len bytes: byte k holds (fill + k) % 256, byte 2 holds b2.
\* Sequences count from 1, so buffer[k] is element k + 1.
Buffer(len, fill, b2) ==
    [k \in 1..len |-> IF k = 3 THEN b2 ELSE (fill + k - 1) % U8]

\* Buffers passed with the AVI type: the wire size, one less, one more.
AviBuffers ==
    {Buffer(l, 1, 13) : l \in {HDMI_INFOFRAME_SIZE_AVI - 1,
                               HDMI_INFOFRAME_SIZE_AVI,
                               HDMI_INFOFRAME_SIZE_AVI + 1}}
    \cup {Buffer(HDMI_INFOFRAME_SIZE_AVI, 129, 13)}

\* Buffers passed with the DRM type; the length byte (index 2) of the
\* accepted size ranges from 0 to past the 26-byte body.
DrmBuffers ==
    {Buffer(l, 1, 26) : l \in {HDMI_INFOFRAME_SIZE_DRM - 1,
                               HDMI_INFOFRAME_SIZE_DRM,
                               HDMI_INFOFRAME_SIZE_DRM + 1}}
    \cup {Buffer(HDMI_INFOFRAME_SIZE_DRM, 1, b) : b \in {0, 2, 28}}

BuffersOf(type) ==
    IF type = "AVI" THEN AviBuffers
    ELSE IF type = "DRM" THEN DrmBuffers
    ELSE {Buffer(HDMI_INFOFRAME_SIZE_AVI, 1, 10)}

\* Rates and modes passed to the rate check.
RateInputs ==
    {0, HDMI20_MAX_TMDSRATE - 1, HDMI20_MAX_TMDSRATE, HDMI20_MAX_TMDSRATE + 1,
     2147483647}
ModeInputs == {"1080p", "2160p"}

\* The packet registers, as one value.
PktRegs ==
    [en |-> pktEn, cfg1 |-> pktCfg1, avi |-> aviContents,
     drmi |-> drmiContents, over |-> pktOverrun]

\* buffer[k]; an index at or past the end of the buffer reads whatever
\* follows the buffer in memory, the byte oob.
BufAt(buf, k, oob) == IF k < Len(buf) THEN buf[k + 1] ELSE oob

\* val = b0 | b1 << 8 | b2 << 16 | b3 << 24 for the bytes given.  A 32-bit
\* register value is kept as its four byte lanes, least significant first.
Pack(bs) == [j \in 1..4 |-> IF j <= Len(bs) THEN bs[j] ELSE 0]

\* val = buffer[1] << 8 | buffer[2] << 16
Contents0(buf) == Pack(<<0, buf[2], buf[3]>>)

\* The word config_avi_infoframe writes to PKT_AVI_CONTENTS1 + i * 4: body
\* bytes i*4 .. i*4+3 below 14, taken from buffer[i*4 + j + 3].  The length
\* check keeps every index below the length of the buffer.
AviWord(buf, i) ==
    Pack([j \in 1..Min(4, 14 - i * 4) |->
            BufAt(buf, i * 4 + (j - 1) + 3, 0)])

(***************************************************************************)
(* dw_hdmi_qp_bridge_clear_infoframe.                                      *)
(***************************************************************************)
ClearMask_DrmClearsAll(type) ==
    IF type = "AVI" THEN {PKTSCHED_AVI_TX_EN, PKTSCHED_GCP_TX_EN}
    ELSE IF type = "DRM"
    THEN {PKTSCHED_DRMI_TX_EN, PKTSCHED_AVI_TX_EN, PKTSCHED_GCP_TX_EN}
    ELSE {}

ClearMask_DrmOnly(type) ==
    IF type = "DRM" THEN {PKTSCHED_DRMI_TX_EN} ELSE {}

\* The mask of the dw_hdmi_qp_mod(hdmi, 0, mask, PKTSCHED_PKT_EN) made for
\* the type; the default case makes no register access.
ClearMask(type) ==
    IF type = "AVI" THEN {PKTSCHED_AVI_TX_EN, PKTSCHED_GCP_TX_EN}
    ELSE IF type = "DRM" THEN {PKTSCHED_DRMI_TX_EN}
    ELSE {}

\* The hdmi_clear_infoframe callback.
ClearInfoframe(type) ==
    /\ ifr.pc = "idle"
    /\ nCalls < MaxCalls
    /\ nCalls' = nCalls + 1
    /\ pktEn' = pktEn \ ClearMask(type)
    /\ ifr' = [IdleIfr EXCEPT !.pc = "done", !.op = "clear", !.type = type,
                              !.pre = PktRegs, !.ret = 0]
    /\ UNCHANGED <<pktCfg1, aviContents, drmiContents, pktOverrun>>
    /\ UNCHANGED nonPktVars

(***************************************************************************)
(* dw_hdmi_qp_bridge_write_infoframe.                                      *)
(***************************************************************************)
\* The hdmi_write_infoframe callback is entered.
WriteInfoframe(type, buf) ==
    /\ ifr.pc = "idle"
    /\ nCalls < MaxCalls
    /\ nCalls' = nCalls + 1
    /\ ifr' = [IdleIfr EXCEPT !.pc = "clear", !.op = "write", !.type = type,
                              !.buf = buf, !.pre = PktRegs]
    /\ UNCHANGED <<pktEn, pktCfg1, aviContents, drmiContents, pktOverrun>>
    /\ UNCHANGED nonPktVars

\* dw_hdmi_qp_bridge_clear_infoframe(bridge, type), then the switch.
WriteClear ==
    /\ ifr.pc = "clear"
    /\ pktEn' = pktEn \ ClearMask(ifr.type)
    /\ ifr' = IF ifr.type = "AVI" THEN [ifr EXCEPT !.pc = "avi_len"]
              ELSE IF ifr.type = "DRM" THEN [ifr EXCEPT !.pc = "drm_len"]
              ELSE [ifr EXCEPT !.pc = "done", !.ret = 0]
    /\ UNCHANGED <<pktCfg1, aviContents, drmiContents, pktOverrun, nCalls>>
    /\ UNCHANGED nonPktVars

(***************************************************************************)
(* dw_hdmi_qp_config_avi_infoframe.                                        *)
(***************************************************************************)
AviLenOk_AtMost(len) == len <= HDMI_INFOFRAME_SIZE_AVI

AviLenOk(len) == len = HDMI_INFOFRAME_SIZE_AVI

AviCheckLen ==
    /\ ifr.pc = "avi_len"
    /\ ifr' = IF AviLenOk(Len(ifr.buf))
              THEN [ifr EXCEPT !.pc = "avi_c0"]
              ELSE [ifr EXCEPT !.pc = "done", !.ret = EINVAL]
    /\ UNCHANGED <<pktEn, pktCfg1, aviContents, drmiContents, pktOverrun,
                   nCalls>>
    /\ UNCHANGED nonPktVars

\* dw_hdmi_qp_write(hdmi, val, PKT_AVI_CONTENTS0)
AviContents0 ==
    /\ ifr.pc = "avi_c0"
    /\ aviContents' = [aviContents EXCEPT ![0] = Contents0(ifr.buf)]
    /\ ifr' = [ifr EXCEPT !.pc = "avi_c", !.i = 0,
                          !.val = Contents0(ifr.buf), !.nEnc = @ + 1]
    /\ UNCHANGED <<pktEn, pktCfg1, drmiContents, pktOverrun, nCalls>>
    /\ UNCHANGED nonPktVars

\* One pass of the outer loop: dw_hdmi_qp_write(hdmi, val,
\* PKT_AVI_CONTENTS1 + i * 4).
AviContentsN ==
    LET val == AviWord(ifr.buf, ifr.i) IN
    /\ ifr.pc = "avi_c"
    /\ aviContents' = [aviContents EXCEPT ![ifr.i + 1] = val]
    /\ ifr' = [ifr EXCEPT !.pc = IF ifr.i + 1 < 4 THEN "avi_c" ELSE "avi_fr",
                          !.i = @ + 1, !.val = val, !.nEnc = @ + 1]
    /\ UNCHANGED <<pktEn, pktCfg1, drmiContents, pktOverrun, nCalls>>
    /\ UNCHANGED nonPktVars

\* dw_hdmi_qp_mod(hdmi, 0, PKTSCHED_AVI_FIELDRATE, PKTSCHED_PKT_CONFIG1)
AviFieldrate ==
    /\ ifr.pc = "avi_fr"
    /\ pktCfg1' = pktCfg1 \ {PKTSCHED_AVI_FIELDRATE}
    /\ ifr' = [ifr EXCEPT !.pc = "avi_en", !.nEnc = @ + 1]
    /\ UNCHANGED <<pktEn, aviContents, drmiContents, pktOverrun, nCalls>>
    /\ UNCHANGED nonPktVars

\* dw_hdmi_qp_mod(hdmi, AVI_TX_EN | GCP_TX_EN, AVI_TX_EN | GCP_TX_EN,
\* PKTSCHED_PKT_EN); return 0
AviEnable ==
    /\ ifr.pc = "avi_en"
    /\ pktEn' = pktEn \cup {PKTSCHED_AVI_TX_EN, PKTSCHED_GCP_TX_EN}
    /\ ifr' = [ifr EXCEPT !.pc = "done", !.ret = 0, !.nEnc = @ + 1]
    /\ UNCHANGED <<pktCfg1, aviContents, drmiContents, pktOverrun, nCalls>>
    /\ UNCHANGED nonPktVars

(***************************************************************************)
(* dw_hdmi_qp_config_drm_infoframe.                                        *)
(***************************************************************************)
DrmCheckLen ==
    /\ ifr.pc = "drm_len"
    /\ ifr' = IF Len(ifr.buf) = HDMI_INFOFRAME_SIZE_DRM
              THEN [ifr EXCEPT !.pc = "drm_dis"]
              ELSE [ifr EXCEPT !.pc = "done", !.ret = EINVAL]
    /\ UNCHANGED <<pktEn, pktCfg1, aviContents, drmiContents, pktOverrun,
                   nCalls>>
    /\ UNCHANGED nonPktVars

\* dw_hdmi_qp_mod(hdmi, 0, PKTSCHED_DRMI_TX_EN, PKTSCHED_PKT_EN)
DrmDisable ==
    /\ ifr.pc = "drm_dis"
    /\ pktEn' = pktEn \ {PKTSCHED_DRMI_TX_EN}
    /\ ifr' = [ifr EXCEPT !.pc = "drm_c0", !.nEnc = @ + 1]
    /\ UNCHANGED <<pktCfg1, aviContents, drmiContents, pktOverrun, nCalls>>
    /\ UNCHANGED nonPktVars

\* dw_hdmi_qp_write(hdmi, val, PKT_DRMI_CONTENTS0)
DrmContents0 ==
    /\ ifr.pc = "drm_c0"
    /\ drmiContents' = [drmiContents EXCEPT ![0] = Contents0(ifr.buf)]
    /\ ifr' = [ifr EXCEPT !.pc = "drm_c", !.i = 0,
                          !.val = Contents0(ifr.buf), !.nEnc = @ + 1]
    /\ UNCHANGED <<pktEn, pktCfg1, aviContents, pktOverrun, nCalls>>
    /\ UNCHANGED nonPktVars

\* The passes of the loop from a multiple of four up to the next register
\* write: bytes buffer[3 + i] for i up to i | 3 or buffer[2], whichever comes
\* first, then dw_hdmi_qp_write(hdmi, val, PKT_DRMI_CONTENTS1 + (i / 4) * 4).
\* Register PKT_DRMI_CONTENTS1 + w * 4 is word w + 1 of the block; a word
\* past PKT_DRMI_CONTENTS7 lands in the registers behind the block.
DrmContentsN ==
    LET buf == ifr.buf
        first == ifr.i
        last == Min(first + 3, buf[3])
        w == (first \div 4) + 1
        past == {k \in first..last : 3 + k >= Len(buf)}
    IN
    /\ ifr.pc = "drm_c"
    /\ \E oob \in [past -> UninitVals] :
         LET val == Pack([j \in 1..(last - first + 1) |->
                            IF first + j - 1 \in past
                            THEN oob[first + j - 1]
                            ELSE BufAt(buf, 3 + first + j - 1, 0)])
         IN
         /\ IF w <= 7
            THEN /\ drmiContents' = [drmiContents EXCEPT ![w] = val]
                 /\ UNCHANGED pktOverrun
            ELSE /\ pktOverrun' = SinkWrite(pktOverrun, w, val)
                 /\ UNCHANGED drmiContents
         /\ ifr' = [ifr EXCEPT !.pc = IF last = buf[3] THEN "drm_fr"
                                      ELSE "drm_c",
                               !.i = last + 1, !.val = val, !.nEnc = @ + 1]
    /\ UNCHANGED <<pktEn, pktCfg1, aviContents, nCalls>>
    /\ UNCHANGED nonPktVars

\* dw_hdmi_qp_mod(hdmi, 0, PKTSCHED_DRMI_FIELDRATE, PKTSCHED_PKT_CONFIG1)
DrmFieldrate ==
    /\ ifr.pc = "drm_fr"
    /\ pktCfg1' = pktCfg1 \ {PKTSCHED_DRMI_FIELDRATE}
    /\ ifr' = [ifr EXCEPT !.pc = "drm_en", !.nEnc = @ + 1]
    /\ UNCHANGED <<pktEn, aviContents, drmiContents, pktOverrun, nCalls>>
    /\ UNCHANGED nonPktVars

\* dw_hdmi_qp_mod(hdmi, DRMI_TX_EN, DRMI_TX_EN, PKTSCHED_PKT_EN); return 0
DrmEnable ==
    /\ ifr.pc = "drm_en"
    /\ pktEn' = pktEn \cup {PKTSCHED_DRMI_TX_EN}
    /\ ifr' = [ifr EXCEPT !.pc = "done", !.ret = 0, !.nEnc = @ + 1]
    /\ UNCHANGED <<pktCfg1, aviContents, drmiContents, pktOverrun, nCalls>>
    /\ UNCHANGED nonPktVars

(***************************************************************************)
(* dw_hdmi_qp_bridge_tmds_char_rate_valid.                                 *)
(***************************************************************************)
RateStatus_Exclusive(rate) ==
    IF rate >= HDMI20_MAX_TMDSRATE THEN "MODE_CLOCK_HIGH" ELSE "MODE_OK"

RateStatus(rate) ==
    IF rate > HDMI20_MAX_TMDSRATE THEN "MODE_CLOCK_HIGH" ELSE "MODE_OK"

\* The hdmi_tmds_char_rate_valid callback; ret holds the mode status.
TmdsCharRateValid(mode, rate) ==
    /\ ifr.pc = "idle"
    /\ nCalls < MaxCalls
    /\ nCalls' = nCalls + 1
    /\ ifr' = [IdleIfr EXCEPT !.pc = "done", !.op = "rate", !.mode = mode,
                              !.rate = rate, !.pre = PktRegs,
                              !.ret = RateStatus(rate)]
    /\ UNCHANGED <<pktEn, pktCfg1, aviContents, drmiContents, pktOverrun>>
    /\ UNCHANGED nonPktVars

\* The caller has taken the result.
IfrReturn ==
    /\ ifr.pc = "done"
    /\ ifr' = IdleIfr
    /\ UNCHANGED <<pktEn, pktCfg1, aviContents, drmiContents, pktOverrun,
                   nCalls>>
    /\ UNCHANGED nonPktVars

PktNext ==
    \/ \E type \in InfoframeTypes :
         \/ ClearInfoframe(type)
         \/ \E buf \in BuffersOf(type) : WriteInfoframe(type, buf)
    \/ WriteClear
    \/ AviCheckLen
    \/ AviContents0
    \/ AviContentsN
    \/ AviFieldrate
    \/ AviEnable
    \/ DrmCheckLen
    \/ DrmDisable
    \/ DrmContents0
    \/ DrmContentsN
    \/ DrmFieldrate
    \/ DrmEnable
    \/ \E mode \in ModeInputs, rate \in RateInputs :
         TmdsCharRateValid(mode, rate)
    \/ IfrReturn

\* The link after one commit that enabled scrambling: atomic_enable has
\* stored the connector, set scramb_enabled and armed the recheck.
ScrambledLink ==
    /\ fw = [IdleCommit EXCEPT !.rate = HDMI14_MAX_TMDSCLK + 1]
    /\ det = IdleDetect
    /\ wk = IdleWork
    /\ dw = [pending |-> 1, timer |-> SCRAMB_POLL_DELAY_MS, canceling |-> {}]
    /\ scramb_enabled = TRUE
    /\ connector = TRUE
    /\ connStatus = "unknown"
    /\ displayInfo = [is_hdmi |-> TRUE, scdc |-> TRUE, scrambling |-> TRUE]
    /\ hpd = "connected"
    /\ sinkScr = TRUE
    /\ scrambCfg = 1
    /\ opmode = "HDMI"
    /\ linkOn = TRUE
    /\ resetReq = FALSE
    /\ nCommits = 1
    /\ nDetects = 0
    /\ enLog = <<>>

\* The callbacks run on a link in either state the commits leave it in: as
\* bound (no connector, scrambling off) or enabled with scrambling.
InitBridge ==
    /\ InitAdapter
    /\ InitPkt
    /\ InitPwr
    /\ InitBound
    /\ \/ InitLink
       \/ ScrambledLink

SpecPkt == InitBridge /\ [][PktNext]_vars


(***************************************************************************)
(* Part IV: the AP6275P power sequencer                                    *)
(* (drivers/power/sequencing/pwrseq-ap6275p.c) under the power sequencing  *)
(* core, which runs the units of a target in dependency order and counts   *)
(* the enables of each unit.  Specification: SpecPwr.                      *)
(***************************************************************************)
\* Number of power requests made in a run.
MaxPwrOps == 4

\* The negative errno a failing clk_bulk_prepare_enable, regulator_bulk_enable
\* or regulator_bulk_disable returns.
EnableErr == -19

pwrseq_ap6275p_unit_deps_Reversed == <<"regulators-enable", "clock-enable">>

\* pwrseq_ap6275p_unit_deps: the clock unit, then the regulator unit.
pwrseq_ap6275p_unit_deps == <<"clock-enable", "regulators-enable">>

\* pwrseq_ap6275p_targets: the unit of each target.
UnitOf(target) ==
    IF target = "bluetooth" THEN "bluetooth-enable" ELSE "wlan-enable"

\* The .enable callbacks: pwrseq_ap6275p_clk_enable, _vregs_enable,
\* _bt_enable, _wlan_enable.  clk_bulk_prepare_enable and
\* regulator_bulk_enable enable all or, failing (ok false), none; the GPIO
\* callbacks always succeed.
UnitEnable(unit, ok) ==
    /\ clocks' = IF unit = "clock-enable" /\ ok
                 THEN ap6275p_clocks ELSE clocks
    /\ supplies' = IF unit = "regulators-enable" /\ ok
                   THEN ap6275p_supplies ELSE supplies
    /\ bt_gpio' = IF unit = "bluetooth-enable" THEN 1 ELSE bt_gpio
    /\ wlan_gpio' = IF unit = "wlan-enable" THEN 1 ELSE wlan_gpio

\* The .disable callbacks: pwrseq_ap6275p_clk_disable, _vregs_disable,
\* _bt_disable, _wlan_disable.  regulator_bulk_disable may fail (ok false)
\* and then leaves the regulators enabled.
UnitDisable(unit, ok) ==
    /\ clocks' = IF unit = "clock-enable" THEN {} ELSE clocks
    /\ supplies' = IF unit = "regulators-enable" /\ ok THEN {} ELSE supplies
    /\ bt_gpio' = IF unit = "bluetooth-enable" THEN 0 ELSE bt_gpio
    /\ wlan_gpio' = IF unit = "wlan-enable" THEN 0 ELSE wlan_gpio

\* Which callbacks can fail.
EnableOutcomes(unit) ==
    IF unit \in {"clock-enable", "regulators-enable"} THEN BOOLEAN
    ELSE {TRUE}
DisableOutcomes(unit) ==
    IF unit = "regulators-enable" THEN BOOLEAN ELSE {TRUE}

PsUnit == UnitOf(TargetOf(ps.desc))

\* pwrseq_power_on(desc): nothing to do when this consumer has the target
\* on; a unit already enabled only has its count raised.
PowerOn(d) ==
    /\ ps.pc = "idle"
    /\ nPwrOps < MaxPwrOps
    /\ nPwrOps' = nPwrOps + 1
    /\ LET u == UnitOf(TargetOf(d)) IN
       IF powered_on[d]
       THEN /\ ps' = [IdlePs EXCEPT !.pc = "done", !.op = "on", !.desc = d]
            /\ UNCHANGED enable_count
       ELSE IF enable_count[u] # 0
       THEN /\ ps' = [IdlePs EXCEPT !.pc = "on_post", !.op = "on",
                                    !.desc = d]
            /\ enable_count' = [enable_count EXCEPT ![u] = @ + 1]
       ELSE /\ ps' = [IdlePs EXCEPT !.pc = "on_dep", !.op = "on",
                                    !.desc = d, !.k = 1]
            /\ UNCHANGED enable_count
    /\ UNCHANGED <<powered_on, clocks, supplies, bt_gpio, wlan_gpio>>
    /\ UNCHANGED nonPwrVars

\* Enable dependency k of the unit: raise its count, calling its .enable
\* when the count was 0.  A failure undoes the dependencies enabled before.
EnableDep ==
    LET dep == pwrseq_ap6275p_unit_deps[ps.k] IN
    /\ ps.pc = "on_dep"
    /\ IF enable_count[dep] # 0
       THEN /\ enable_count' = [enable_count EXCEPT ![dep] = @ + 1]
            /\ ps' = [ps EXCEPT !.pc = IF ps.k = Len(pwrseq_ap6275p_unit_deps)
                                       THEN "on_unit" ELSE "on_dep",
                                !.k = @ + 1]
            /\ UNCHANGED <<clocks, supplies, bt_gpio, wlan_gpio>>
       ELSE \E ok \in EnableOutcomes(dep) :
              /\ UnitEnable(dep, ok)
              /\ IF ok
                 THEN /\ enable_count' = [enable_count EXCEPT ![dep] = 1]
                      /\ ps' = [ps EXCEPT
                                  !.pc = IF ps.k = Len(pwrseq_ap6275p_unit_deps)
                                         THEN "on_unit" ELSE "on_dep",
                                  !.k = @ + 1]
                 ELSE /\ UNCHANGED enable_count
                      /\ ps' = [ps EXCEPT !.pc = "on_undo", !.k = @ - 1,
                                          !.ret = EnableErr]
    /\ UNCHANGED <<powered_on, nPwrOps>>
    /\ UNCHANGED nonPwrVars

\* Undo dependency k after a failure, last enabled first.
UndoDep ==
    /\ ps.pc = "on_undo"
    /\ IF ps.k = 0
       THEN /\ ps' = [ps EXCEPT !.pc = "done"]
            /\ UNCHANGED <<enable_count, clocks, supplies, bt_gpio, wlan_gpio>>
       ELSE LET dep == pwrseq_ap6275p_unit_deps[ps.k] IN
            /\ IF enable_count[dep] = 1
               THEN UnitDisable(dep, TRUE)
               ELSE UNCHANGED <<clocks, supplies, bt_gpio, wlan_gpio>>
            /\ enable_count' = [enable_count EXCEPT ![dep] = @ - 1]
            /\ ps' = [ps EXCEPT !.k = @ - 1]
    /\ UNCHANGED <<powered_on, nPwrOps>>
    /\ UNCHANGED nonPwrVars

\* The target unit's .enable: the GPIO is driven high.
EnableUnit ==
    /\ ps.pc = "on_unit"
    /\ UnitEnable(PsUnit, TRUE)
    /\ enable_count' = [enable_count EXCEPT ![PsUnit] = @ + 1]
    /\ ps' = [ps EXCEPT !.pc = "on_post"]
    /\ UNCHANGED <<powered_on, nPwrOps>>
    /\ UNCHANGED nonPwrVars

\* .post_enable (pwrseq_ap6275p_pwup_delay), then desc->powered_on = true.
PostEnable ==
    /\ ps.pc = "on_post"
    /\ powered_on' = [powered_on EXCEPT ![ps.desc] = TRUE]
    /\ ps' = [ps EXCEPT !.pc = "done", !.ret = 0]
    /\ UNCHANGED <<enable_count, clocks, supplies, bt_gpio, wlan_gpio>>
    /\ UNCHANGED nPwrOps
    /\ UNCHANGED nonPwrVars

\* pwrseq_power_off(desc): nothing to do when this consumer has not the
\* target on; a unit enabled more than once only has its count lowered.
PowerOff(d) ==
    /\ ps.pc = "idle"
    /\ nPwrOps < MaxPwrOps
    /\ nPwrOps' = nPwrOps + 1
    /\ LET u == UnitOf(TargetOf(d)) IN
       IF ~powered_on[d]
       THEN /\ ps' = [IdlePs EXCEPT !.pc = "done", !.op = "off", !.desc = d]
            /\ UNCHANGED <<enable_count, powered_on>>
       ELSE IF enable_count[u] # 1
       THEN /\ ps' = [IdlePs EXCEPT !.pc = "done", !.op = "off", !.desc = d]
            /\ enable_count' = [enable_count EXCEPT ![u] = @ - 1]
            /\ powered_on' = [powered_on EXCEPT ![d] = FALSE]
       ELSE /\ ps' = [IdlePs EXCEPT !.pc = "off_unit", !.op = "off",
                                    !.desc = d]
            /\ UNCHANGED <<enable_count, powered_on>>
    /\ UNCHANGED <<clocks, supplies, bt_gpio, wlan_gpio>>
    /\ UNCHANGED nonPwrVars

\* The target unit's .disable: the GPIO is driven low.
DisableUnit ==
    /\ ps.pc = "off_unit"
    /\ UnitDisable(PsUnit, TRUE)
    /\ ps' = [ps EXCEPT !.pc = "off_dep",
                        !.k = Len(pwrseq_ap6275p_unit_deps)]
    /\ UNCHANGED <<enable_count, powered_on, nPwrOps>>
    /\ UNCHANGED nonPwrVars

\* Disable dependency k, last first: lower its count, calling its .disable
\* when the count was 1.  A failure ends the request with the error.
DisableDep ==
    /\ ps.pc = "off_dep"
    /\ IF ps.k = 0
       THEN /\ enable_count' = [enable_count EXCEPT ![PsUnit] = @ - 1]
            /\ powered_on' = [powered_on EXCEPT ![ps.desc] = FALSE]
            /\ ps' = [ps EXCEPT !.pc = "done", !.ret = 0]
            /\ UNCHANGED <<clocks, supplies, bt_gpio, wlan_gpio>>
       ELSE LET dep == pwrseq_ap6275p_unit_deps[ps.k] IN
            IF enable_count[dep] # 1
            THEN /\ enable_count' = [enable_count EXCEPT ![dep] = @ - 1]
                 /\ ps' = [ps EXCEPT !.k = @ - 1]
                 /\ UNCHANGED <<powered_on, clocks, supplies, bt_gpio,
                                wlan_gpio>>
            ELSE \E ok \in DisableOutcomes(dep) :
                   /\ UnitDisable(dep, ok)
                   /\ IF ok
                      THEN /\ enable_count' = [enable_count EXCEPT ![dep] = 0]
                           /\ ps' = [ps EXCEPT !.k = @ - 1]
                      ELSE /\ UNCHANGED enable_count
                           /\ ps' = [ps EXCEPT !.pc = "done", !.ret = EnableErr]
                   /\ UNCHANGED powered_on
    /\ UNCHANGED nPwrOps
    /\ UNCHANGED nonPwrVars

\* The request returns and the state lock is released.
PwrReturn ==
    /\ ps.pc = "done"
    /\ ps' = IdlePs
    /\ UNCHANGED <<enable_count, powered_on, clocks, supplies, bt_gpio,
                   wlan_gpio, nPwrOps>>
    /\ UNCHANGED nonPwrVars

PwrNext ==
    \/ \E d \in Descs : PowerOn(d) \/ PowerOff(d)
    \/ EnableDep
    \/ UndoDep
    \/ EnableUnit
    \/ PostEnable
    \/ DisableUnit
    \/ DisableDep
    \/ PwrReturn

SpecPwr == Init /\ [][PwrNext]_vars


(***************************************************************************)
(* Part V: dw_hdmi_qp_bind and dw_hdmi_qp_i2c_adapter, with the interrupt  *)
(* handler invoked from the moment it is registered.  A step that can fail *)
(* either fails, and bind returns the error, or goes on.                   *)
(***************************************************************************)
\* A hard fault stops the machine.
Halted == fault = "oops"

BindFails(r) == bind' = [bind EXCEPT !.pc = "failed", !.ret = r]

BindGoes(next) == bind' = [bind EXCEPT !.pc = next]

\* if (!plat_data->phy_ops || !...->init || !...->disable || !...->read_hpd)
BindCheckOps ==
    /\ ~Halted
    /\ bind.pc = "check_ops"
    /\ IF bind.plat.ops THEN BindGoes("resources") ELSE BindFails("ENODEV")
    /\ UNCHANGED <<handler, i2c_set, fault>>
    /\ UNCHANGED <<adapterVars, nonBindVars>>

\* devm_kzalloc of the controller state, devm_platform_ioremap_resource,
\* devm_regmap_init_mmio.
BindResources ==
    /\ ~Halted
    /\ bind.pc = "resources"
    /\ \/ BindGoes("init_hw")
       \/ \E r \in {"ENOMEM", "ioremap", "regmap"} : BindFails(r)
    /\ UNCHANGED <<handler, i2c_set, fault>>
    /\ UNCHANGED <<adapterVars, nonBindVars>>

\* dw_hdmi_qp_init_hw: mask the interrupts, soft reset of the I2C master,
\* clear DONE and ERROR.
BindInitHw ==
    /\ ~Halted
    /\ bind.pc = "init_hw"
    /\ maskN' = {}
    /\ hwBusy' = FALSE
    /\ intStatus' = intStatus \ {I2CM_OP_DONE, I2CM_NACK_RCVD}
    /\ BindGoes("request_irq")
    /\ UNCHANGED <<handler, i2c_set, fault>>
    /\ UNCHANGED <<i2cVars, ctrl0, ctrl1, wrdata, rddata, sinkMem, histVars, irq>>
    /\ UNCHANGED nonBindVars

\* devm_request_threaded_irq(dev, plat_data->main_irq,
\*                           dw_hdmi_qp_main_hardirq, NULL, IRQF_SHARED, ..)
BindRequestIrq ==
    /\ ~Halted
    /\ bind.pc = "request_irq"
    /\ \/ BindGoes("adapter_alloc") /\ handler' = TRUE
       \/ BindFails("request_irq") /\ UNCHANGED handler
    /\ UNCHANGED <<i2c_set, fault>>
    /\ UNCHANGED <<adapterVars, nonBindVars>>

\* dw_hdmi_qp_i2c_adapter: devm_kzalloc of the I2C context, mutex_init,
\* init_completion.
AdapterAlloc ==
    /\ ~Halted
    /\ bind.pc = "adapter_alloc"
    /\ \/ /\ BindGoes("adapter_add")
          /\ lock' = NoOwner
          /\ cmp' = 0
          /\ i2cStat' = {}
          /\ slave_reg' = 0
          /\ is_regaddr' = FALSE
          /\ is_segment' = FALSE
       \/ /\ BindFails("ENOMEM")
          /\ UNCHANGED <<lock, cmp, i2cStat, slave_reg, is_regaddr, is_segment>>
    /\ UNCHANGED <<handler, i2c_set, fault>>
    /\ UNCHANGED <<call, nXfers, hwVars, histVars, irq>>
    /\ UNCHANGED nonBindVars

\* devm_i2c_add_adapter; on failure devm_kfree and the error is returned.
AdapterAdd ==
    /\ ~Halted
    /\ bind.pc = "adapter_add"
    /\ \/ BindGoes("adapter_set")
       \/ BindFails("add_adapter")
    /\ UNCHANGED <<handler, i2c_set, fault>>
    /\ UNCHANGED <<adapterVars, nonBindVars>>

\* hdmi->i2c = i2c
AdapterSet ==
    /\ ~Halted
    /\ bind.pc = "adapter_set"
    /\ i2c_set' = TRUE
    /\ BindGoes("bridge_add")
    /\ UNCHANGED <<handler, fault>>
    /\ UNCHANGED <<adapterVars, nonBindVars>>

\* devm_drm_bridge_add
BindBridgeAdd ==
    /\ ~Halted
    /\ bind.pc = "bridge_add"
    /\ \/ BindGoes("attach")
       \/ BindFails("bridge_add")
    /\ UNCHANGED <<handler, i2c_set, fault>>
    /\ UNCHANGED <<adapterVars, nonBindVars>>

\* drm_bridge_attach; return hdmi.
BindAttach ==
    /\ ~Halted
    /\ bind.pc = "attach"
    /\ \/ bind' = [bind EXCEPT !.pc = "bound", !.ret = "ok"]
       \/ BindFails("attach")
    /\ UNCHANGED <<handler, i2c_set, fault>>
    /\ UNCHANGED <<adapterVars, nonBindVars>>

\* The caller's probe fails on the error: the device-managed resources are
\* released, the handler is freed with them.
BindRelease ==
    /\ ~Halted
    /\ bind.pc = "failed"
    /\ bind' = [bind EXCEPT !.pc = "released"]
    /\ handler' = FALSE
    /\ i2c_set' = FALSE
    /\ UNCHANGED fault
    /\ UNCHANGED <<adapterVars, nonBindVars>>

\* What the store through a NULL hdmi->i2c does: the access faults in
\* interrupt context, or it lands in whatever is mapped there.
NullDerefOutcomes == {"oops", "wild_write"}

\* The line is raised (IRQF_SHARED: by any device on it) while the handler
\* is registered: dw_hdmi_qp_main_hardirq runs with i2c = hdmi->i2c.
BindIrq ==
    /\ ~Halted
    /\ handler
    /\ bind.pc # "bound"
    /\ IF i2c_set
       THEN \E other \in SUBSET OtherSources : MainHardirq(other)
       ELSE /\ \E o \in NullDerefOutcomes : fault' = o
            /\ UNCHANGED <<bind, handler, i2c_set>>
            /\ UNCHANGED <<adapterVars, nonBindVars>>

BindNext ==
    \/ BindCheckOps
    \/ BindResources
    \/ BindInitHw
    \/ BindRequestIrq
    \/ AdapterAlloc
    \/ AdapterAdd
    \/ AdapterSet
    \/ BindBridgeAdd
    \/ BindAttach
    \/ BindRelease
    \/ BindIrq

\* The state dw_hdmi_qp_bind is called in.
InitUnbound == InitAdapter /\ InitLink /\ InitPkt /\ InitPwr /\ InitBind

SpecBind == InitUnbound /\ [][BindNext]_vars

(***************************************************************************)
(* Properties of the I2C adapter (checked under Spec).                     *)
(***************************************************************************)
\* Between taking the transaction lock and returning.
InXfer(c) ==
    call[c].pc \in {"setup", "msg", "byte", "strobe", "wait", "check", "mute"}

\* At a byte-level operation: register-pointer write and strobe, wait, check.
AtByteOp(c) == call[c].pc \in {"byte", "strobe", "wait", "check"}

I2cSources == {I2CM_OP_DONE, I2CM_NACK_RCVD}

\* C1: at most one message batch is in flight: while one master-transfer
\* call is between taking the lock and returning, it is the lock owner and no
\* other call is in that region or at any byte-level operation.
C1_OneBatchInFlight ==
    \A c \in Callers :
        InXfer(c) =>
            /\ lock = c
            /\ \A d \in Callers \ {c} : ~InXfer(d) /\ ~AtByteOp(d)

\* C1 witness: a byte operation of one caller is waiting for its completion
\* while the other caller is blocked on the lock.
C1_Witness ==
    \E c \in Callers : \E d \in Callers \ {c} :
        call[c].pc = "wait" /\ call[d].pc = "lock"

\* C2: a call that passed validation has both sources unmasked from before
\* its first byte-level operation until its exit, has them masked again when
\* it returns, whatever the outcome; with no transfer in flight both sources
\* are masked.
C2_IrqMasking ==
    /\ \A c \in Callers :
         /\ call[c].pc \in {"msg", "byte", "strobe", "wait", "check", "mute"}
              => I2cSources \subseteq maskN
         /\ (call[c].pc = "done" /\ call[c].wrote)
              => maskN \cap I2cSources = {}
    /\ (\A c \in Callers : ~InXfer(c)) => maskN \cap I2cSources = {}

\* C2 witness: a call has returned on an error path (timeout or NACK).
C2_Witness ==
    \E c \in Callers :
        /\ call[c].pc = "done"
        /\ call[c].ret \in {EAGAIN, EIO}
        /\ maskN \cap I2cSources = {}

\* C3: a wait that times out writes the soft reset and fails with -EAGAIN; a
\* completion checked with the NACK bit in the status snapshot writes the
\* soft reset and fails with -EIO; after either, the call only mutes and
\* returns that error: no retry, no further byte, no further message.
C3_ErrorHandling ==
    [][\A c \in Callers :
         /\ (call[c].pc = "wait" /\ cmp = 0 /\ call'[c] # call[c])
              => /\ call'[c].pc = "mute"
                 /\ call'[c].ret = EAGAIN
                 /\ call'[c].resets = call[c].resets + 1
                 /\ ~hwBusy'
         /\ (call[c].pc = "check" /\ I2CM_NACK_RCVD \in i2cStat
               /\ call'[c] # call[c])
              => /\ call'[c].pc = "mute"
                 /\ call'[c].ret = EIO
                 /\ call'[c].resets = call[c].resets + 1
                 /\ ~hwBusy'
         /\ (call[c].pc = "mute" /\ call[c].ret < 0 /\ call'[c] # call[c])
              => /\ call'[c].pc = "done"
                 /\ call'[c].ret = call[c].ret
                 /\ call'[c].i = call[c].i
                 /\ call'[c].rd = call[c].rd
                 /\ call'[c].resets = 1
                 /\ UNCHANGED <<hwBusy, ctrl0, wrdata, sinkMem>>
      ]_vars

\* C3 witness: a call that saw the NACK bit has returned -EIO after one
\* soft reset, with messages of its batch left unprocessed.
C3_Witness ==
    \E c \in Callers :
        /\ call[c].pc = "done"
        /\ call[c].ret = EIO
        /\ call[c].resets = 1
        /\ call[c].i < Len(call[c].msgs)

ContainsZeroLength(msgs) == {k \in DOMAIN msgs : msgs[k].len = 0} # {}

\* C4: a call with a batch that holds a zero-length message, at any
\* position, never takes the lock: it is returned -EOPNOTSUPP having written
\* no register.
C4_ZeroLengthRejected ==
    \A c \in Callers :
        (call[c].pc # "idle" /\ ContainsZeroLength(call[c].msgs))
            => /\ call[c].pc = "done"
               /\ call[c].ret = EOPNOTSUPP
               /\ ~call[c].wrote
               /\ lock # c

\* C4 witness: rejected for a zero-length message that follows a valid one.
C4_Witness ==
    \E c \in Callers :
        /\ call[c].pc = "done"
        /\ Len(call[c].msgs) = 2
        /\ call[c].msgs[1].addr = DDC_ADDR
        /\ call[c].msgs[1].len > 0
        /\ call[c].msgs[2].len = 0
        /\ call[c].ret = EOPNOTSUPP

ContainsDdcCi(msgs) == {k \in DOMAIN msgs : msgs[k].addr = DDC_CI_ADDR} # {}

\* C5 as claimed: a batch with a DDC/CI message at any position is returned
\* -EOPNOTSUPP and no bus operation is performed.
C5_DdcCiAnywhereRejected ==
    \A c \in Callers :
        (call[c].pc # "idle" /\ ContainsDdcCi(call[c].msgs))
            => /\ call[c].pc = "done"
               /\ call[c].ret = EOPNOTSUPP
               /\ ~call[c].wrote

\* C5 amended: a batch whose first message is addressed to DDC/CI, whatever
\* its content and whatever follows, is returned -EOPNOTSUPP having written
\* no register.
C5_DdcCiFirstRejected ==
    \A c \in Callers :
        (call[c].pc # "idle" /\ call[c].msgs[1].addr = DDC_CI_ADDR)
            => /\ call[c].pc = "done"
               /\ call[c].ret = EOPNOTSUPP
               /\ ~call[c].wrote
               /\ lock # c

\* C5 witness: a two-message batch led by a DDC/CI message was rejected.
C5_Witness ==
    \E c \in Callers :
        /\ call[c].pc = "done"
        /\ Len(call[c].msgs) = 2
        /\ call[c].msgs[1].addr = DDC_CI_ADDR
        /\ call[c].ret = EOPNOTSUPP

\* C6: round trip.  After a successful transfer that wrote v to register r
\* (batch <<[r, v]>>), with no later write to r and no NACK or timeout, a
\* successful transfer <<[r], read 1>> returns v.
C6_RoundTrip ==
    \A c \in Callers : \A r \in RegPtrs :
        ( /\ call[c].pc = "done"
          /\ call[c].msgs = <<WrMsg(DDC_ADDR, <<r>>), RdMsg(DDC_ADDR, 1)>>
          /\ call[c].ret = 2
          /\ clean )
        => \A v \in shadow[r] : call[c].rd = <<v>>

\* C6 witness: such a read has returned a byte written before.
C6_Witness ==
    \E c \in Callers : \E r \in RegPtrs :
        /\ call[c].pc = "done"
        /\ call[c].msgs = <<WrMsg(DDC_ADDR, <<r>>), RdMsg(DDC_ADDR, 1)>>
        /\ call[c].ret = 2
        /\ clean
        /\ \E v \in DataBytes : shadow[r] = {v} /\ call[c].rd = <<v>>

(***************************************************************************)
(* Properties of the link / scrambling state machine (checked under        *)
(* SpecLink).                                                              *)
(***************************************************************************)
\* A recheck is pending or executing.
Armed == dw.pending > 0 \/ ~WorkIdle

\* C7: once atomic_disable is past its synchronous cancel, and from then
\* until the next enable begins, no recheck is pending and none is
\* executing: the local scrambling bit is cleared, the sink is told to stop
\* and the link stays disabled with no recheck access, although an
\* execution in flight during the cancel tried to re-arm itself.
C7_NoRecheckAfterDisable ==
    (\/ fw.pc \in {"dis_cfg", "dis_sink", "dis_phy", "en_entry"}
     \/ ~linkOn)
        => /\ dw.pending = 0
           /\ WorkIdle

\* C7 witness: disable was called with scrambling enabled and waits in its
\* cancel for an execution that is about to re-arm the recheck.
C7_Witness ==
    /\ fw.pc = "dis_wait"
    /\ wk.pc = "arm"
    /\ "commit" \in dw.canceling

ScrambSequence(log) ==
    /\ Len(log) = 5
    /\ log[1].op = "version"
    /\ log[1].val = Min(log[1].arg, SCDC_MIN_SOURCE_VERSION)
    /\ log[2].op = "ratio"
    /\ log[3].op = "scramble"
    /\ log[4].op = "arm"
    /\ log[4].val = SCRAMB_POLL_DELAY_MS
    /\ log[5].op = "local"

\* atomic_enable takes its last step.
EnableEnds == fw.pc = "phy" /\ fw'.pc = "idle"

\* C9 as claimed: at the end of atomic_enable, a non-HDMI sink has the DVI
\* mode programmed and no scrambling step taken; an HDMI sink with a rate
\* above 340,000,000 has had the scrambling sequence run, the flag is set
\* and a recheck is armed; an HDMI sink with a rate of at most 340,000,000
\* has no scrambling step taken and the flag clear.
C9_EnableAsClaimed ==
    [][ EnableEnds =>
          /\ fw.op_mode = "DVI"
               => opmode' = "DVI" /\ enLog = <<>>
          /\ (fw.op_mode = "HDMI" /\ fw.rate > HDMI14_MAX_TMDSCLK)
               => /\ ScrambSequence(enLog)
                  /\ scramb_enabled'
                  /\ Armed'
          /\ (fw.op_mode = "HDMI" /\ fw.rate <= HDMI14_MAX_TMDSCLK)
               => enLog = <<>> /\ ~scramb_enabled'
      ]_vars

\* C9 amended: the scrambling sequence runs if and only if the sink is
\* HDMI, the rate is above 340,000,000 and display_info reports SCDC and
\* scrambling support; then the flag and the local bit are set at the end
\* of enable, the version written is the minimum of 1 and the version
\* obtained (the sink's, or an indeterminate byte when its read failed), and
\* the arming step arms a recheck due in 3000 ms unless a cancel is in
\* progress.  Otherwise no scrambling step is taken and the flag is clear.
\* A non-HDMI sink has the DVI mode programmed, an HDMI sink has not.
C9_EnableScramblingIffSupported ==
    [][ /\ EnableEnds =>
             /\ opmode' = fw.op_mode
             /\ IF /\ fw.op_mode = "HDMI"
                   /\ fw.rate > HDMI14_MAX_TMDSCLK
                   /\ fw.supp
                THEN /\ ScrambSequence(enLog)
                     /\ enLog[1].arg \in (IF enLog[1].ok THEN SinkVersions
                                                         ELSE UninitVals)
                     /\ scramb_enabled'
                     /\ scrambCfg' = 1
                ELSE /\ enLog = <<>>
                     /\ ~scramb_enabled'
        /\ (fw.pc = "scr_arm" /\ fw'.pc = "scr_cfg")
             => IF dw.canceling = {}
                THEN dw'.pending = 1 /\ dw'.timer = SCRAMB_POLL_DELAY_MS
                ELSE dw' = dw
      ]_vars

\* C9 witness: enable of an HDMI sink at the first rate above the threshold
\* has run the whole sequence and is about to end.
C9_Witness ==
    /\ fw.pc = "phy"
    /\ fw.op_mode = "HDMI"
    /\ fw.rate = HDMI14_MAX_TMDSCLK + 1
    /\ Len(enLog) = 5
    /\ scramb_enabled
    /\ dw.pending = 1

\* A recheck execution returns.
RecheckEnds == wk.pc = "ret" /\ wk'.pc = "idle"

\* C10 as claimed: an execution that found scrambling inactive has issued
\* each of the two sink commands once and armed exactly one recheck, due in
\* 3000 ms; one that found it active has issued none and armed none; at
\* most one recheck is pending.
C10_RecheckAsClaimed ==
    /\ [](dw.pending <= 1)
    /\ [][ /\ RecheckEnds =>
                IF wk.found
                THEN wk.nRatio = 0 /\ wk.nScr = 0 /\ wk.nArm = 0
                ELSE wk.nRatio = 1 /\ wk.nScr = 1 /\ wk.nArm = 1
           /\ (wk.nArm = 0 /\ wk'.nArm = 1)
                => dw'.pending = 1 /\ dw'.timer = SCRAMB_POLL_DELAY_MS
         ]_vars

\* C10 amended: an execution that found scrambling inactive has issued
\* each of the two sink commands once and asked once for a recheck in
\* 3000 ms; the request arms exactly one recheck, except that it arms none
\* while a synchronous cancel (disable or detect) is in progress.  One that
\* found scrambling active has issued no command and armed nothing.  At
\* most one recheck is pending, and it executes only when its delay has
\* passed.
C10_RecheckArmsUnlessCancelled ==
    /\ [](dw.pending <= 1)
    /\ [][ /\ RecheckEnds =>
                IF wk.found
                THEN wk.nRatio = 0 /\ wk.nScr = 0 /\ wk.nArm = 0
                ELSE wk.nRatio = 1 /\ wk.nScr = 1 /\ wk.nArm <= 1
           /\ (wk.pc = "arm" /\ wk'.pc = "ret")
                => IF dw.canceling = {}
                   THEN /\ wk'.nArm = 1
                        /\ dw'.pending = 1
                        /\ dw'.timer = SCRAMB_POLL_DELAY_MS
                   ELSE /\ wk'.nArm = 0
                        /\ dw' = dw
           /\ (WorkIdle /\ ~WorkIdle') => dw.pending = 1 /\ dw.timer = 0
         ]_vars

\* C10 witness: an execution that found scrambling inactive has issued both
\* commands and armed the next recheck.
C10_Witness ==
    /\ wk.pc = "ret"
    /\ ~wk.found
    /\ wk.nRatio = 1
    /\ wk.nScr = 1
    /\ wk.nArm = 1
    /\ dw.pending = 1
    /\ dw.timer = SCRAMB_POLL_DELAY_MS

(***************************************************************************)
(* Properties of the infoframe encoder and the rate check (checked under   *)
(* SpecPkt).                                                               *)
(***************************************************************************)
\* The transmit-enable bit of an encoded infoframe type.
TxEnOf(type) ==
    IF type = "AVI" THEN PKTSCHED_AVI_TX_EN ELSE PKTSCHED_DRMI_TX_EN

\* A write of an accepted AVI or DRM buffer, from just before its first
\* packet-content register write until just before the transmit-enable
\* bit is set again.
UpdatingContents ==
    /\ ifr.op = "write"
    /\ ifr.pc \in {"avi_c0", "avi_c", "avi_fr", "avi_en",
                   "drm_c0", "drm_c", "drm_fr", "drm_en"}

\* C11: in an infoframe write of type AVI or DRM with a buffer of the right
\* length, the type's transmit-enable bit is clear from before the first
\* packet-content register write until after the last one: no step changes
\* a content register of the type while the bit is set, and the bit is set
\* again only by the final step of the encode function.
C11_TxEnLowWhileUpdating ==
    /\ [](UpdatingContents => TxEnOf(ifr.type) \notin pktEn)
    /\ [][/\ aviContents' # aviContents =>
                PKTSCHED_AVI_TX_EN \notin (pktEn \cup pktEn')
          /\ (drmiContents' # drmiContents \/ pktOverrun' # pktOverrun) =>
                PKTSCHED_DRMI_TX_EN \notin (pktEn \cup pktEn')
          /\ \A type \in {"AVI", "DRM"} :
                (TxEnOf(type) \in pktEn' \ pktEn) =>
                    /\ ifr.type = type
                    /\ ifr.pc \in {"avi_en", "drm_en"}]_vars

\* An AVI write that found the AVI bit set is half way through the content
\* registers.
C11_Witness ==
    /\ ifr.op = "write"
    /\ ifr.type = "AVI"
    /\ ifr.pc = "avi_c"
    /\ ifr.i = 2
    /\ PKTSCHED_AVI_TX_EN \in ifr.pre.en
    /\ aviContents # ifr.pre.avi
    /\ aviContents[4] = ifr.pre.avi[4]


\* An infoframe write of the given type has reached its return.
WriteDone(type) == ifr.op = "write" /\ ifr.type = type /\ ifr.pc = "done"

\* C12: AVI infoframe encode with a buffer of exactly 17 bytes returns 0
\* with the AVI and general-control-packet transmit-enable bits set; with
\* any other length it returns -EINVAL and the encode function has issued
\* no register write (content and field-rate registers are as at entry).
C12_AviEncodeByLength ==
    WriteDone("AVI") =>
        IF Len(ifr.buf) = 17
        THEN /\ ifr.ret = 0
             /\ {PKTSCHED_AVI_TX_EN, PKTSCHED_GCP_TX_EN} \subseteq pktEn
        ELSE /\ ifr.ret = EINVAL
             /\ ifr.nEnc = 0
             /\ aviContents = ifr.pre.avi
             /\ pktCfg1 = ifr.pre.cfg1
             /\ pktEn \subseteq ifr.pre.en

\* A 17-byte AVI buffer was encoded: five content words, the field-rate
\* and the enable write.
C12_Witness ==
    /\ WriteDone("AVI")
    /\ Len(ifr.buf) = 17
    /\ ifr.ret = 0
    /\ ifr.nEnc = 7
    /\ aviContents[1] = <<4, 5, 6, 7>>
    /\ aviContents[4] = <<16, 17, 0, 0>>
    /\ {PKTSCHED_AVI_TX_EN, PKTSCHED_GCP_TX_EN} \subseteq pktEn


\* The buffer length the encode function of the type accepts.
WireSize(type) ==
    IF type = "AVI" THEN HDMI_INFOFRAME_SIZE_AVI ELSE HDMI_INFOFRAME_SIZE_DRM

\* C13: an infoframe write of type AVI or DRM whose buffer has the wrong
\* length returns -EINVAL and performs no register write: every packet
\* register, the packet-scheduler enable register included, holds at the
\* return the value it held at entry.
C13_WrongLengthWritesNothing ==
    \A type \in {"AVI", "DRM"} :
        (WriteDone(type) /\ Len(ifr.buf) # WireSize(type)) =>
            /\ ifr.ret = EINVAL
            /\ PktRegs = ifr.pre


(***************************************************************************)
(* Hot-plug detect (checked under SpecLink).                               *)
(***************************************************************************)
\* C14: hot-plug detect returns the status the PHY's read_hpd reported at
\* its entry, on every path; when that status is disconnected or no
\* connector is bound at the check, detect goes straight to its return: it
\* reads no EDID over DDC, updates no display info and resets no link.
C14_DetectReturnsHpd ==
    [][/\ (det.pc = "idle" /\ det'.pc # "idle") => det'.status = hpd
       /\ (det.pc # "idle" /\ det'.pc # "idle") => det'.status = det.status
       /\ (det.pc # "idle" /\ det'.pc = "idle") => connStatus' = det.status
       /\ (/\ det.pc = "check"
           /\ det' # det
           /\ (det.status = "disconnected" \/ ~connector)) =>
              /\ det'.pc = "ret"
              /\ UNCHANGED <<displayInfo, resetReq, nCommits>>
       /\ (det.pc = "ret" /\ det' # det) =>
              /\ det'.pc = "idle"
              /\ UNCHANGED <<displayInfo, resetReq, nCommits>>]_vars

\* Detect read "disconnected", cancelled the recheck of a scrambled link and
\* is about to return that status although the cable is back and a connector
\* is bound; no EDID has been read.
C14_Witness ==
    /\ det.pc = "ret"
    /\ det.status = "disconnected"
    /\ hpd = "connected"
    /\ connector
    /\ scramb_enabled
    /\ dw.pending = 0
    /\ displayInfo = [is_hdmi |-> TRUE, scdc |-> TRUE, scrambling |-> TRUE]
    /\ nCommits = 1


(***************************************************************************)
(* Infoframe clear and rate check (checked under SpecPkt).                 *)
(***************************************************************************)
\* The clear callback has reached its return.
ClearDone(type) == ifr.op = "clear" /\ ifr.type = type /\ ifr.pc = "done"

\* C15: the infoframe clear operation changes only the transmit-enable
\* bits of the given type: AVI clears the AVI and general-control-packet
\* bits and leaves the DRM bit as it was, DRM clears the DRM bit and leaves
\* the AVI and general-control-packet bits as they were, any other type
\* changes no register; every case returns 0 and leaves the content and
\* field-rate registers alone.
C15_ClearOnlyOwnBits ==
    \A type \in InfoframeTypes :
        ClearDone(type) =>
            /\ ifr.ret = 0
            /\ pktCfg1 = ifr.pre.cfg1
            /\ aviContents = ifr.pre.avi
            /\ drmiContents = ifr.pre.drmi
            /\ pktOverrun = ifr.pre.over
            /\ pktEn = ifr.pre.en \ (IF type = "AVI"
                                     THEN {"AVI_TX_EN", "GCP_TX_EN"}
                                     ELSE IF type = "DRM"
                                     THEN {"DRMI_TX_EN"}
                                     ELSE {})

\* A DRM clear found all three bits set and left the AVI pair set.
C15_Witness ==
    /\ ClearDone("DRM")
    /\ ifr.pre.en = {"AVI_TX_EN", "GCP_TX_EN", "DRMI_TX_EN"}
    /\ pktEn = {"AVI_TX_EN", "GCP_TX_EN"}


\* C16: the TMDS rate check answers MODE_OK for every rate up to and
\* including 600,000,000 and MODE_CLOCK_HIGH for every rate above it,
\* whatever the mode argument and whatever the scrambling and connector
\* state, and it changes no state: the step that makes the check leaves
\* every register and every driver field as it was.
C16_RateValidAtThreshold ==
    /\ []((ifr.op = "rate" /\ ifr.pc = "done") =>
             ifr.ret = IF ifr.rate <= 600000000
                       THEN "MODE_OK" ELSE "MODE_CLOCK_HIGH")
    /\ [][ifr'.op = "rate" =>
             UNCHANGED <<adapterVars, linkVars, pktEn, pktCfg1, aviContents,
                         drmiContents, pktOverrun>>]_vars

\* Exactly 600,000,000 was accepted on a link with scrambling enabled.
C16_Witness ==
    /\ ifr.op = "rate"
    /\ ifr.pc = "done"
    /\ ifr.rate = 600000000
    /\ ifr.mode = "2160p"
    /\ ifr.ret = "MODE_OK"
    /\ scramb_enabled
    /\ connector


(***************************************************************************)
(* Properties of the power sequencer (checked under SpecPwr).              *)
(***************************************************************************)
\* The GPIO of a target and the target that is not the given one.
GpioOf(target, bt, wlan) == IF target = "bluetooth" THEN bt ELSE wlan
OtherTarget(target) == IF target = "bluetooth" THEN "wlan" ELSE "bluetooth"

\* C17: under any sequence of power-on and power-off requests for the two
\* targets, (1) whenever the Bluetooth or the WLAN enable GPIO is high, both
\* clocks and both regulators are enabled; (2) the clocks are enabled while
\* the regulators and GPIOs are still off, the regulators while the clocks
\* are on and the GPIOs low, and a GPIO is raised only with clocks and
\* regulators on; (3) a power-off of one target while the other target is
\* enabled leaves the clocks, the regulators and the other target's GPIO as
\* they are.
C17_PowerSequence ==
    /\ []((bt_gpio = 1 \/ wlan_gpio = 1) =>
             /\ clocks = {"ref", "rtc"}
             /\ supplies = {"vbat", "vddio"})
    /\ [][/\ (clocks' # clocks /\ clocks' # {}) =>
                /\ clocks' = {"ref", "rtc"}
                /\ supplies = {}
                /\ bt_gpio = 0 /\ wlan_gpio = 0
          /\ (supplies' # supplies /\ supplies' # {}) =>
                /\ supplies' = {"vbat", "vddio"}
                /\ clocks = {"ref", "rtc"}
                /\ bt_gpio = 0 /\ wlan_gpio = 0
          /\ (bt_gpio' > bt_gpio \/ wlan_gpio' > wlan_gpio) =>
                /\ clocks = {"ref", "rtc"}
                /\ supplies = {"vbat", "vddio"}
          /\ \A t \in Targets :
                (/\ ps.op = "off"
                 /\ TargetOf(ps.desc) = t
                 /\ enable_count[UnitOf(OtherTarget(t))] > 0) =>
                    /\ UNCHANGED <<clocks, supplies>>
                    /\ GpioOf(OtherTarget(t), bt_gpio', wlan_gpio') =
                           GpioOf(OtherTarget(t), bt_gpio, wlan_gpio)]_vars

\* WLAN has been powered off while Bluetooth stays on: its GPIO is low,
\* the Bluetooth GPIO, the clocks and the regulators are untouched.
C17_Witness ==
    /\ ps.op = "off"
    /\ ps.desc = "wlan-a"
    /\ ps.pc = "done"
    /\ ps.ret = 0
    /\ ~powered_on["wlan-a"]
    /\ powered_on["bt-a"]
    /\ wlan_gpio = 0
    /\ bt_gpio = 1
    /\ clocks = {"ref", "rtc"}
    /\ supplies = {"vbat", "vddio"}
    /\ enable_count["clock-enable"] = 1
    /\ enable_count["wlan-enable"] = 0


(***************************************************************************)
(* Properties of the interrupt dispatcher and the handoff (checked under   *)
(* Spec).                                                                  *)
(***************************************************************************)
\* C18: each invocation of the interrupt dispatcher writes the clear
\* register and signals the completion if and only if one of
\* operation-done, read-request, NACK-received is set in the status it
\* read, clearing exactly those bits; it returns IRQ_HANDLED if and only if
\* the raw status is non-zero, matched or not, and IRQ_NONE otherwise.
C18_DispatcherOutcome ==
    /\ [](irq.ret # "none" =>
             LET matched == irq.raw \cap {"OP_DONE", "READ_REQUEST",
                                          "NACK_RCVD"}
             IN /\ irq.signal <=> matched # {}
                /\ irq.clear = matched
                /\ irq.ret = "IRQ_HANDLED" <=> irq.raw # {}
                /\ irq.ret = "IRQ_NONE" <=> irq.raw = {})
    /\ [][irq' # irq =>
             /\ i2cStat' = irq'.clear
             /\ intStatus' = intStatus \ irq'.clear
             /\ cmp' = IF irq'.signal THEN cmp + 1 ELSE cmp]_vars

\* The handler ran on the shared line with only another source's bit set:
\* nothing cleared, nothing signalled, yet IRQ_HANDLED, while a transfer
\* waits for its byte operation.
C18_Witness ==
    /\ irq.raw = {"OTHER_IRQ"}
    /\ irq.clear = {}
    /\ ~irq.signal
    /\ irq.ret = "IRQ_HANDLED"
    /\ cmp = 0
    /\ \E c \in Callers : call[c].pc = "wait"


\* C19: the interrupt-to-waiter handoff is one-shot per byte operation: a
\* wait is ended only by the completion raised for the operation it waits
\* for, or by the timeout; a signal raised with nobody waiting, or left
\* over from an earlier operation or an earlier timed-out transfer, never
\* ends a later wait early.  A wait that ends by a completion therefore
\* ends after the hardware has finished the operation waited for.
C19_HandoffOneShot ==
    [][\A c \in Callers :
         (call[c].pc = "wait" /\ call'[c].pc = "check") => ~hwBusy]_vars


\* C20: every master-transfer call terminates and releases the transaction
\* lock whether or not an interrupt ever arrives: a call waits for the
\* completion only after the register write that starts the operation, it
\* does not hold the lock before it acquired it or once it has its return
\* value, and no caller stays inside a call (queued on the lock or
\* transferring) for ever.
C20_TransferTerminates ==
    /\ [](\A c \in Callers :
            /\ call[c].pc = "wait" =>
                  ctrl0.wr \in {"FM_WRITE", "FM_READ", "EXT_READ"}
            /\ call[c].pc \in {"idle", "lock", "done"} => lock # c)
    /\ \A c \in Callers : []<>(call[c].pc \in {"idle", "done"})

\* One caller waits for a byte operation that no interrupt has answered
\* while the other caller is queued on the lock.
C20_Witness ==
    /\ call["display"].pc = "wait"
    /\ lock = "display"
    /\ cmp = 0
    /\ intStatus = {}
    /\ hwBusy
    /\ call["recheck"].pc = "lock"


\* C21: for every batch that is processed to its end without error, the
\* extended-read (segment) flag is clear when the transfer returns, wherever
\* the one-byte segment-pointer message stands in the batch and whatever
\* follows it.
C21_SegmentFlagClearAtReturn ==
    \A c \in Callers :
        (call[c].pc = "done" /\ call[c].wrote /\ call[c].ret = Len(call[c].msgs))
            => ~is_segment


\* The first message of a batch that is a read or a write (not a
\* segment-pointer message); 0 if there is none.
FirstDataMsg(msgs) ==
    IF \E k \in DOMAIN msgs : ~IsSegmentMsg(msgs[k])
    THEN CHOOSE k \in DOMAIN msgs :
            /\ ~IsSegmentMsg(msgs[k])
            /\ \A j \in 1..(k - 1) : IsSegmentMsg(msgs[j])
    ELSE 0

\* C22: within one batch the register pointer is established once, on
\* entering the first read or write message: from the first byte of a write
\* message, which is not sent as data, or as 0 for a read message.  Every
\* other message keeps the pointer and sends all its bytes; every byte
\* operation targets the current pointer and then increments it modulo 256;
\* nothing else changes the pointer, and a new batch establishes it again
\* whatever the last batch left.
C22_RegisterPointer ==
    /\ [][\A c \in Callers :
         LET k == call[c].i
             msgs == call[c].msgs
         IN
         /\ (call[c].pc = "msg" /\ call'[c].pc = "byte")
              => IF k = FirstDataMsg(msgs)
                 THEN IF msgs[k].rd
                      THEN /\ slave_reg' = 0
                           /\ call'[c].left = msgs[k].len
                      ELSE /\ slave_reg' = msgs[k].buf[1]
                           /\ call'[c].left = msgs[k].len - 1
                 ELSE /\ slave_reg' = slave_reg
                      /\ call'[c].left = msgs[k].len
         /\ (call[c].pc = "strobe" /\ call'[c].pc = "wait")
              => /\ ctrl0'.addr = slave_reg
                 /\ slave_reg' = (slave_reg + 1) % 256
                 /\ ~msgs[k].rd
                      => wrdata' = msgs[k].buf[msgs[k].len - call[c].left]
      ]_vars
    /\ [][slave_reg' # slave_reg
            => \E c \in Callers :
                  \/ call[c].pc = "msg" /\ call'[c].pc = "byte"
                  \/ call[c].pc = "strobe" /\ call'[c].pc = "wait"
        ]_vars

\* C22 witness: the batch <<write [255, 1], write [255, 2]>>; the first byte
\* of the second message is on its way as data to register 0, the pointer
\* having wrapped after the first message's data byte went to register 255.
C22_Witness ==
    \E c \in Callers :
        /\ call[c].msgs = <<WrMsg(DDC_ADDR, <<255, 1>>), WrMsg(DDC_ADDR, <<255, 2>>)>>
        /\ call[c].pc = "wait"
        /\ call[c].i = 2
        /\ call[c].left = 1
        /\ wrdata = 255
        /\ ctrl0.addr = 0
        /\ slave_reg = 1


\* C23: a NACK is not lost between the handler and the waiter.  In the first
\* transfer made (nothing is left over from an earlier one), a call that
\* returns success never timed out, so the hardware raised no NACK for any
\* of its byte operations: had it raised one, the call would have returned
\* -EIO, whatever handler invocations came between the signal and the check.
C23_NackNotLost ==
    \A c \in Callers :
        (nXfers = 1 /\ call[c].pc = "done" /\ call[c].ret > 0) => clean


\* C24: the interrupt handler never runs while the I2C context it
\* dereferences is unset: no invocation finds hdmi->i2c NULL.
C24_HandlerHasContext == fault = "none"


\* C25: for a DRM infoframe buffer of the accepted length and any value of
\* its length byte (index 2), DRM encode reads only buffer indices below the
\* buffer length (the pass of the loop about to run reads buffer[3 + i] up
\* to its register write) and writes only content registers of the DRM
\* packet block, nothing behind PKT_DRMI_CONTENTS7.
C25_DrmEncodeInBounds ==
    /\ ifr.pc = "drm_c"
         => 3 + Min(ifr.i + 3, ifr.buf[3]) < Len(ifr.buf)
    /\ pktOverrun = <<>>


TypeOK ==
    /\ lock \in Callers \cup {NoOwner}
    /\ cmp \in 0..3
    /\ slave_reg \in 0..(U8 - 1)

=============================================================================
